---- MODULE Spec2Model ----
(***************************************************************************)
(* Model of configflow's AutoTuningEngine                                  *)
(* (src/src/autotuning/AutoTuningEngine.ts) and of the ConfigFlow process  *)
(* that drives it (src/src/index.ts).                                      *)
(*                                                                         *)
(* Spec and FairSpec are the engine with its backup directory in place,    *)
(* used through processSuggestions and cleanupOldBackups.  EngineSpec adds *)
(* the outcome of the constructor's directory work and getTuningStats.     *)
(* FlowSpec is the engine as ConfigFlow uses it: periodic callbacks, no    *)
(* clean-up, and the shutdown on SIGINT or SIGTERM.                        *)
(*                                                                         *)
(* The engine runs on the Node.js event loop.  Every `await` of a file     *)
(* system call is a point where another callback can run, so an async      *)
(* method is split into one action per stretch of synchronous code: the    *)
(* action named after the method runs the code up to the first awaited     *)
(* file operation, and one action per awaited file operation runs the code *)
(* from its completion up to the next one.  A file operation takes effect  *)
(* (or fails) at its completion.  Awaiting an async method that finishes   *)
(* without file I/O does not let another callback in.                      *)
(*                                                                         *)
(* Time is counted in ticks.  A backup carries its age (ticks since its    *)
(* timestamp was taken) and a timer the ticks left until it is due.        *)
(***************************************************************************)
EXTENDS Integers, Sequences, FiniteSets, TLC

(***************************************************************************)
(* Bounds of the model                                                     *)
(***************************************************************************)
MaxCalls == 2
MaxSessions == 2
MaxBatch == 2
MaxConcurrent == 2

Calls == 1..MaxCalls
SessionIds == 1..MaxSessions

(***************************************************************************)
(* Types                                                                   *)
(***************************************************************************)
TESTING == "testing"
SUCCESSFUL == "successful"
ROLLED_BACK == "rolled_back"
PENDING == "pending"
FAILED == "failed"
AWAITING_APPROVAL == "awaiting_approval"

TuningStatus == {PENDING, TESTING, SUCCESSFUL, FAILED, ROLLED_BACK, AWAITING_APPROVAL}

(* A file's text: the format it is written in and the value of the tuned   *)
(* parameter.  "raw" is valid JSON as the user wrote it, "canon" is the    *)
(* output of JSON.stringify(config, null, 2), "garbage" does not parse,    *)
(* "text" is a file that is not JSON.                                      *)
Content(fmt, val) == [fmt |-> fmt, val |-> val]
NoContent == Content("none", 0)

Files == {"app.json", "locked.json", "system"}

(* The suggestions a caller can pass: confidence is in hundredths.         *)
Sugg(file, param, value, conf, risk) ==
    [configFile |-> file, parameter |-> param, suggestedValue |-> value,
     confidence |-> conf, riskLevel |-> risk]

Suggestion ==
    <<Sugg("app.json",    "pool.size", 1, 70, "low"),
      Sugg("app.json",    "pool.size", 2, 90, "medium"),
      Sugg("app.json",    "pool.size", 3, 65, "low"),
      Sugg("system",      "gc",        4, 90, "low"),
      Sugg("locked.json", "pool.size", 5, 90, "low")>>

SuggestionIds == DOMAIN Suggestion

(* Summaries of the last five snapshots, as calculateMetricsAverage        *)
(* returns them: cpu and memory in percent, stability in hundredths.       *)
Metrics(cpu, mem, stab) == [avgCpu |-> cpu, avgMemory |-> mem, stability |-> stab]
EmptyMetrics == Metrics(0, 0, 100)
NoMetrics == Metrics(-1, -1, -1)
MetricsSummaries == {Metrics(50, 50, 80)}

VARIABLES
    config,             \* this.config
    activeSessions,     \* this.activeSessions: session id -> session
    backups,            \* this.backups: sequence of ConfigBackup
    completedSessions,  \* this.completedSessions: sequence of sessions
    backupDir,          \* ids of the <id>.backup files in this.backupDir
    files,              \* the monitored files: existence, permission, text
    calls,              \* the running processSuggestions invocations
    timers,             \* pending setTimeout callbacks of scheduleValidation
    validations,        \* validateAndFinalize runs waiting for a restore
    nextSessionId,      \* source of fresh session ids
    nextBackupId,       \* source of fresh backup ids
    original,           \* session id -> the text its createBackup read
    ensured,            \* the fate of the constructor's ensureBackupDirectory
    stats,              \* what the last getTuningStats call returned
    isRunning,          \* ConfigFlow.isRunning
    alive,              \* the Node.js process runs
    escaped,            \* an exception has left a periodic callback
    work,               \* the periodic callback that last did its work
    analysisConfig,     \* ImpactAnalyzer.config
    baselines,          \* ImpactAnalyzer.baselines: config hash -> baseline
    changeHistory,      \* ImpactAnalyzer.changeHistory
    analysisResults,    \* ImpactAnalyzer.analysisResults
    now,                \* Date.now()
    nextChangeId,       \* source of fresh change ids
    runs,               \* for each analysis result, the inputs it was made from,
                        \* the time of the call and the results recorded before it
    grouped,            \* config hash -> the snapshots its baseline was made from
    load,               \* how the process is loaded over time
    deployment,         \* which configuration is in force over time
    suggestionList,     \* OptimizationEngine.suggestions
    returned,           \* what the last generateSuggestions call returned
    nextSuggestionId,   \* source of fresh suggestion ids
    held,               \* the sessions a caller got from getActiveSessions
    seen                \* what those sessions looked like when it got them

vars == <<config, activeSessions, backups, completedSessions, backupDir, files,
          calls, timers, validations, nextSessionId, nextBackupId, original,
          ensured, stats, isRunning, alive, escaped, work,
          analysisConfig, baselines, changeHistory, analysisResults, now,
          nextChangeId, runs, grouped, load, deployment, suggestionList, returned,
          nextSuggestionId, held, seen>>

(* What no step of a tuning session touches *)
analyzer == <<analysisConfig, baselines, changeHistory, analysisResults, now,
              nextChangeId, runs, grouped, load, deployment>>
optimizer == <<suggestionList, returned, nextSuggestionId>>
reader == <<held, seen>>
others == <<analyzer, optimizer, reader>>
outside == <<ensured, stats, isRunning, alive, escaped, work, others>>


(***************************************************************************)
(* Values for "nothing yet"                                                *)
(***************************************************************************)
Backup(id, age, file, content, reason) ==
    [id |-> id, age |-> age, configFile |-> file, originalContent |-> content,
     reason |-> reason]
NoBackup == Backup(0, 0, "", NoContent, 0)

IdleCall ==
    [pc |-> "idle", toProcess |-> <<>>, suggestion |-> 0, sessionId |-> 0,
     creating |-> NoBackup, backup |-> NoBackup, currentMetrics |-> NoMetrics,
     pending |-> NoContent]

(***************************************************************************)
(* Pure helpers                                                            *)
(***************************************************************************)
Min(a, b) == IF a < b THEN a ELSE b
Max(a, b) == IF a > b THEN a ELSE b

(* Array.prototype.slice(0, end): a negative end counts from the back *)
slice(s, end) ==
    LET e == IF end < 0 THEN Max(Len(s) + end, 0) ELSE Min(end, Len(s))
    IN  SubSeq(s, 1, e)

riskOrder(level) ==
    CASE level = "low" -> 1
      [] level = "medium" -> 2
      [] level = "high" -> 3
      [] OTHER -> 0

isWithinRiskThreshold(riskLevel) ==
    LET suggestionRisk == IF riskOrder(riskLevel) = 0 THEN 3 ELSE riskOrder(riskLevel)
        thresholdRisk == riskOrder(config.riskThreshold)
    IN  suggestionRisk <= thresholdRisk

isFileModifiable(filePath) ==
    filePath \in Files /\ files[filePath].exists /\ files[filePath].writable

(* isEligible without the confidence check *)
isEligible_anyConfidence(id) ==
    /\ isWithinRiskThreshold(Suggestion[id].riskLevel)
    /\ isFileModifiable(Suggestion[id].configFile)

(* The callback of the filter of filterEligibleSuggestions *)
isEligibleSuggestion(suggestion) ==
    /\ isWithinRiskThreshold(suggestion.riskLevel)
    /\ ~(suggestion.confidence < 70)
    /\ isFileModifiable(suggestion.configFile)

isEligible(id) == isEligibleSuggestion(Suggestion[id])

filterEligibleSuggestions(suggestions) ==
    SelectSeq(suggestions, isEligible)

isVirtual(filePath) ==
    filePath = "system" \/ filePath = "algorithmic_optimization"

endsWithJson(filePath) ==
    filePath \in {"app.json", "locked.json"}

(* JSON.parse of a file's text succeeds on well-formed JSON only *)
parses(content) == content.fmt \in {"raw", "canon"}

(* JSON.stringify(config, null, 2) after the leaf of the path was set *)
modified(content, value) == Content("canon", value)

Session(id, sid, metrics) ==
    [id |-> id, suggestionId |-> sid, configFile |-> Suggestion[sid].configFile,
     newValue |-> Suggestion[sid].suggestedValue, status |-> TESTING,
     preChangeMetrics |-> metrics, postChangeMetrics |-> NoMetrics,
     improvementMeasured |-> 0, rollbackReason |-> <<>>, endTime |-> FALSE]

(* The sessions and backups the calls still in flight may yet create *)
Reserved == LET n[c \in 0..MaxCalls] ==
                    IF c = 0 THEN 0 ELSE n[c - 1] + Len(calls[c].toProcess)
            IN  n[MaxCalls]

(* The configurations the engine is constructed with.  One tick is the    *)
(* test duration; a retention of no days makes a backup old after a tick.  *)
Configs ==
    [enabled : BOOLEAN,
     safetyMode : {TRUE},
     maxConcurrentChanges : 1..MaxConcurrent,
     approvalRequired : BOOLEAN,
     riskThreshold : {"low"},
     testDuration : {1},
     backupRetention : {0}]

File(exists, writable, content) ==
    [exists |-> exists, writable |-> writable, content |-> content]

(* The working directory holds no file named system *)
FileSystem ==
    [f \in Files |->
        CASE f = "app.json"    -> File(TRUE, TRUE, Content("raw", 0))
          [] f = "locked.json" -> File(TRUE, FALSE, Content("raw", 0))
          [] OTHER             -> File(FALSE, FALSE, NoContent)]

(* The constructor's ensureBackupDirectory: a failure of fs.ensureDir is    *)
(* logged and leaves the engine as it is.  Whether a later write into the  *)
(* directory succeeds is the file system's answer at the time of the write.*)
(* The analyzer that ConfigFlow.start constructs: three samples, a window  *)
(* of five ticks; thresholds in hundredths.                                *)
StartedAnalysisConfig ==
    [minSampleSize |-> 3, stabilityThreshold |-> 15,
     significanceThreshold |-> 5, analysisWindow |-> 5]

ensureBackupDirectory(ok) == IF ok THEN "ok" ELSE "failed"

(* getTuningStats has not been called *)
NoStats == [totalSessions |-> -1]

(* The fields of a new engine, and a ConfigFlow that start() has brought up *)
constructed ==
    /\ activeSessions = <<>>
    /\ backups = <<>>
    /\ completedSessions = <<>>
    /\ backupDir = {}
    /\ files = FileSystem
    /\ calls = [c \in Calls |-> IdleCall]
    /\ timers = {}
    /\ validations = {}
    /\ nextSessionId = 1
    /\ nextBackupId = 1
    /\ original = <<>>
    /\ stats = NoStats
    /\ isRunning = TRUE
    /\ alive = TRUE
    /\ escaped = FALSE
    /\ work = "none"
    /\ baselines = <<>>
    /\ changeHistory = <<>>
    /\ analysisResults = <<>>
    /\ now = 0
    /\ nextChangeId = 1
    /\ runs = <<>>
    /\ grouped = <<>>
    /\ suggestionList = <<>>
    /\ returned = [given |-> <<>>, result |-> <<>>]
    /\ nextSuggestionId = 1
    /\ held = <<>>
    /\ seen = <<>>

(* An engine whose backup directory is in place *)
Init ==
    /\ config \in Configs
    /\ constructed
    /\ ensured = ensureBackupDirectory(TRUE)
    /\ analysisConfig = StartedAnalysisConfig
    /\ load = "calm"
    /\ deployment = "one"


(***************************************************************************)
(* processSuggestions and applySuggestion                                  *)
(***************************************************************************)
generateSessionId == nextSessionId
generateBackupId == nextBackupId

(* The loop of processSuggestions reaches its next suggestion (or its end):*)
(* applySuggestion runs up to the readFile that createBackup awaits.       *)
Proceed(c, rest, currentMetrics) ==
    IF rest = <<>>
    THEN /\ calls' = [calls EXCEPT ![c] = IdleCall]
         /\ UNCHANGED <<nextSessionId, nextBackupId>>
    ELSE /\ calls' = [calls EXCEPT ![c] =
                [pc |-> "createBackup_read",
                 toProcess |-> Tail(rest),
                 suggestion |-> Head(rest),
                 sessionId |-> generateSessionId,
                 creating |-> Backup(generateBackupId, 0,
                                     Suggestion[Head(rest)].configFile,
                                     NoContent, Head(rest)),
                 backup |-> NoBackup,
                 currentMetrics |-> currentMetrics,
                 pending |-> NoContent]]
         /\ nextSessionId' = nextSessionId + 1
         /\ nextBackupId' = nextBackupId + 1

(* processSuggestions without the check of config.enabled *)
processSuggestionsUpTo_always(limit, c, suggestions, currentMetrics) ==
    /\ calls[c].pc = "idle"
    /\ \A d \in 1..(c - 1) : calls[d].pc # "idle"
    /\ IF FALSE
       THEN UNCHANGED <<calls, nextSessionId, nextBackupId>>
       ELSE LET eligibleSuggestions == filterEligibleSuggestions(suggestions)
                availableSlots == config.maxConcurrentChanges
                                    - Cardinality(DOMAIN activeSessions)
                toProcess == slice(eligibleSuggestions, availableSlots)
            IN  /\ (nextSessionId - 1) + Reserved + Len(toProcess) <= limit
                /\ Proceed(c, toProcess, currentMetrics)
    /\ UNCHANGED <<config, activeSessions, backups, completedSessions,
                   backupDir, files, timers, validations, original, outside>>

(* processSuggestions in a world that sees at most `limit` sessions *)
processSuggestionsUpTo(limit, c, suggestions, currentMetrics) ==
    /\ calls[c].pc = "idle"
    /\ \A d \in 1..(c - 1) : calls[d].pc # "idle"
    /\ IF ~config.enabled
       THEN UNCHANGED <<calls, nextSessionId, nextBackupId>>
       ELSE LET eligibleSuggestions == filterEligibleSuggestions(suggestions)
                availableSlots == config.maxConcurrentChanges
                                    - Cardinality(DOMAIN activeSessions)
                toProcess == slice(eligibleSuggestions, availableSlots)
            IN  /\ (nextSessionId - 1) + Reserved + Len(toProcess) <= limit
                /\ Proceed(c, toProcess, currentMetrics)
    /\ UNCHANGED <<config, activeSessions, backups, completedSessions,
                   backupDir, files, timers, validations, original, outside>>

processSuggestions(c, suggestions, currentMetrics) ==
    processSuggestionsUpTo(MaxSessions, c, suggestions, currentMetrics)

delete(sessions, sessionId) ==
    [id \in DOMAIN sessions \ {sessionId} |-> sessions[id]]

set(sessions, sessionId, session) ==
    [id \in DOMAIN sessions \cup {sessionId} |->
        IF id = sessionId THEN session ELSE sessions[id]]

(* scheduleValidation that sets no timer *)
scheduleValidation_noTimer(sessionId, backupId) ==
    timers' = timers

scheduleValidation(sessionId, backupId) ==
    timers' = timers \cup {[sessionId |-> sessionId, backupId |-> backupId,
                            remaining |-> config.testDuration]}

(* A catch that leaves a session registered for the failed attempt *)
catchFailure_keepsSession(c) ==
    /\ activeSessions' = set(activeSessions, calls[c].sessionId,
            Session(calls[c].sessionId, calls[c].suggestion, calls[c].currentMetrics))
    /\ Proceed(c, calls[c].toProcess, calls[c].currentMetrics)

(* The catch of applySuggestion *)
catchFailure(c) ==
    /\ activeSessions' = delete(activeSessions, calls[c].sessionId)
    /\ Proceed(c, calls[c].toProcess, calls[c].currentMetrics)

(* fs.readFile of createBackup completes *)
createBackup_read(c, ok) ==
    LET call == calls[c]
        filePath == call.creating.configFile
    IN  /\ call.pc = "createBackup_read"
        /\ IF ok /\ files[filePath].exists
           THEN /\ calls' = [calls EXCEPT
                      ![c].pc = "createBackup_write",
                      ![c].creating.originalContent = files[filePath].content]
                /\ original' = set(original, call.sessionId, files[filePath].content)
                /\ UNCHANGED <<activeSessions, nextSessionId, nextBackupId>>
           ELSE /\ catchFailure(c)
                /\ UNCHANGED original
        /\ UNCHANGED <<config, backups, completedSessions, backupDir, files,
                       timers, validations, outside>>

(* fs.writeFile of the .backup file completes; on success createBackup     *)
(* returns, the session is registered and applyConfigurationChange starts  *)
createBackup_write(c, ok) ==
    LET call == calls[c]
        filePath == call.creating.configFile
    IN  /\ call.pc = "createBackup_write"
        /\ IF ok
           THEN /\ backupDir' = backupDir \cup {call.creating.id}
                /\ backups' = Append(backups, call.creating)
                /\ activeSessions' = set(activeSessions, call.sessionId,
                        Session(call.sessionId, call.suggestion, call.currentMetrics))
                /\ IF isVirtual(filePath)
                   THEN /\ scheduleValidation(call.sessionId, call.creating.id)
                        /\ Proceed(c, call.toProcess, call.currentMetrics)
                   ELSE /\ calls' = [calls EXCEPT ![c].pc = "apply_read",
                                                  ![c].backup = call.creating,
                                                  ![c].creating = NoBackup]
                        /\ UNCHANGED <<timers, nextSessionId, nextBackupId>>
           ELSE /\ catchFailure(c)
                /\ UNCHANGED <<backupDir, backups, timers>>
        /\ UNCHANGED <<config, completedSessions, files, validations, original, outside>>

(* fs.readFile of applyConfigurationChange completes; its catch swallows   *)
(* a failed read and a failed JSON.parse                                   *)
apply_read(c, ok) ==
    LET call == calls[c]
        suggestion == Suggestion[call.suggestion]
        filePath == suggestion.configFile
    IN  /\ call.pc = "apply_read"
        /\ IF /\ ok /\ files[filePath].exists
              /\ endsWithJson(filePath)
              /\ parses(files[filePath].content)
              /\ suggestion.parameter # "unknown"
           THEN /\ calls' = [calls EXCEPT
                      ![c].pc = "apply_write",
                      ![c].pending = modified(files[filePath].content,
                                              suggestion.suggestedValue)]
                /\ UNCHANGED <<timers, nextSessionId, nextBackupId>>
           ELSE /\ scheduleValidation(call.sessionId, call.backup.id)
                /\ Proceed(c, call.toProcess, call.currentMetrics)
        /\ UNCHANGED <<config, activeSessions, backups, completedSessions,
                       backupDir, files, validations, original, outside>>

(* fs.writeFile of applyConfigurationChange completes; a failure is        *)
(* swallowed by the same catch                                             *)
apply_write(c, ok) ==
    LET call == calls[c]
        filePath == Suggestion[call.suggestion].configFile
    IN  /\ call.pc = "apply_write"
        /\ files' = IF ok /\ files[filePath].writable
                    THEN [files EXCEPT ![filePath].content = call.pending]
                    ELSE files
        /\ scheduleValidation(call.sessionId, call.backup.id)
        /\ Proceed(c, call.toProcess, call.currentMetrics)
        /\ UNCHANGED <<config, activeSessions, backups, completedSessions,
                       backupDir, validations, original, outside>>


(***************************************************************************)
(* Validation                                                              *)
(***************************************************************************)
(* The three Math.random() draws of simulatePostChangeMetrics, as the      *)
(* factors they yield, in hundredths: cpu in [90,110), memory in [85,115), *)
(* stability in [100,110).                                                 *)
Draws == {<<90, 86, 105>>, <<108, 112, 100>>}

simulatePostChangeMetrics(preMetrics, draw) ==
    Metrics(Max(0, (preMetrics.avgCpu * draw[1]) \div 100),
            Max(0, (preMetrics.avgMemory * draw[2]) \div 100),
            Min(100, (preMetrics.stability * draw[3]) \div 100))

(* validatePerformanceChange that keeps every valid change, however small *)
validatePerformanceChange_keepsAnyGain(beforeMetrics, afterMetrics) ==
    LET cpuImprovement == beforeMetrics.avgCpu - afterMetrics.avgCpu
        memoryImprovement == beforeMetrics.avgMemory - afterMetrics.avgMemory
        stabilityImprovement == afterMetrics.stability - beforeMetrics.stability
        overallImprovement == 4 * cpuImprovement + 4 * memoryImprovement
                                + 2 * stabilityImprovement
        isValid == /\ overallImprovement > 0
                   /\ afterMetrics.avgCpu < 90
                   /\ afterMetrics.avgMemory < 95
        issues ==
            (IF 10 * afterMetrics.avgCpu > 11 * beforeMetrics.avgCpu
             THEN <<"CPU usage increased significantly">> ELSE <<>>)
            \o (IF 10 * afterMetrics.avgMemory > 11 * beforeMetrics.avgMemory
                THEN <<"Memory usage increased significantly">> ELSE <<>>)
            \o (IF 10 * afterMetrics.stability < 9 * beforeMetrics.stability
                THEN <<"System stability decreased">> ELSE <<>>)
    IN  [isValid |-> isValid,
         improvementPercent |-> overallImprovement,
         issues |-> issues,
         recommendation |-> IF isValid
                            THEN "keep" ELSE "rollback"]

(* improvementPercent is kept in tenths: 0.4*cpu + 0.4*memory + 20*stability *)
validatePerformanceChange(beforeMetrics, afterMetrics) ==
    LET cpuImprovement == beforeMetrics.avgCpu - afterMetrics.avgCpu
        memoryImprovement == beforeMetrics.avgMemory - afterMetrics.avgMemory
        stabilityImprovement == afterMetrics.stability - beforeMetrics.stability
        overallImprovement == 4 * cpuImprovement + 4 * memoryImprovement
                                + 2 * stabilityImprovement
        isValid == /\ overallImprovement > 0
                   /\ afterMetrics.avgCpu < 90
                   /\ afterMetrics.avgMemory < 95
        issues ==
            (IF 10 * afterMetrics.avgCpu > 11 * beforeMetrics.avgCpu
             THEN <<"CPU usage increased significantly">> ELSE <<>>)
            \o (IF 10 * afterMetrics.avgMemory > 11 * beforeMetrics.avgMemory
                THEN <<"Memory usage increased significantly">> ELSE <<>>)
            \o (IF 10 * afterMetrics.stability < 9 * beforeMetrics.stability
                THEN <<"System stability decreased">> ELSE <<>>)
    IN  [isValid |-> isValid,
         improvementPercent |-> overallImprovement,
         issues |-> issues,
         recommendation |-> IF isValid /\ overallImprovement > 20
                            THEN "keep" ELSE "rollback"]

(* Array.prototype.join("; ") *)
RECURSIVE join(_)
join(issues) ==
    IF issues = <<>> THEN ""
    ELSE IF Len(issues) = 1 THEN issues[1]
    ELSE issues[1] \o "; " \o join(Tail(issues))

(* rollbackChange that marks the session FAILED *)
rolledBack_failed(sessions, sessionId, reason) ==
    IF sessionId \in DOMAIN sessions
    THEN [sessions EXCEPT ![sessionId].status = FAILED,
                          ![sessionId].rollbackReason = reason,
                          ![sessionId].endTime = TRUE]
    ELSE sessions

(* rollbackChange up to the look-up of the backup *)
rolledBack(sessions, sessionId, reason) ==
    IF sessionId \in DOMAIN sessions
    THEN [sessions EXCEPT ![sessionId].status = ROLLED_BACK,
                          ![sessionId].rollbackReason = reason,
                          ![sessionId].endTime = TRUE]
    ELSE sessions

(* this.backups.find((b) => b.id === backupId) *)
found(backupId) == \E i \in DOMAIN backups : backups[i].id = backupId
find(backupId) ==
    backups[CHOOSE i \in DOMAIN backups :
                /\ backups[i].id = backupId
                /\ \A j \in DOMAIN backups : backups[j].id = backupId => i <= j]

(* An end of validateAndFinalize whose catch block puts the session back   *)
(* to testing                                                              *)
finalize_reopened(path, sessions, sessionId) ==
    IF path = "try"
    THEN /\ completedSessions' = Append(completedSessions, sessions[sessionId])
         /\ activeSessions' = delete(sessions, sessionId)
    ELSE /\ activeSessions' = [sessions EXCEPT ![sessionId].status = TESTING]
         /\ UNCHANGED completedSessions

(* The end of validateAndFinalize: the try block moves the session to the  *)
(* completed sessions, the catch block ends after its rollbackChange       *)
finalize(path, sessions, sessionId) ==
    IF path = "try"
    THEN /\ completedSessions' = Append(completedSessions, sessions[sessionId])
         /\ activeSessions' = delete(sessions, sessionId)
    ELSE /\ activeSessions' = sessions
         /\ UNCHANGED completedSessions

ThrowPoints == {"none", "simulatePostChangeMetrics"}

(* The setTimeout callback of scheduleValidation fires.  throwsAt says     *)
(* whether the try block raises while it obtains the post-change metrics;  *)
(* io is the fate of the restoring write, if rollbackChange issues one.    *)
validateAndFinalize(t, draw, throwsAt, io) ==
    LET sessionId == t.sessionId
        backupId == t.backupId
    IN  /\ t \in timers
        /\ t.remaining = 0
        /\ timers' = timers \ {t}
        /\ IF sessionId \notin DOMAIN activeSessions
           THEN UNCHANGED <<activeSessions, completedSessions, validations>>
           ELSE
            LET session == activeSessions[sessionId]
                postChangeMetrics ==
                    simulatePostChangeMetrics(session.preChangeMetrics, draw)
                measured == [session EXCEPT !.postChangeMetrics = postChangeMetrics]
                validation == validatePerformanceChange(session.preChangeMetrics,
                                                        postChangeMetrics)
                path == IF throwsAt = "none" THEN "try" ELSE "catch"
                sessions == IF throwsAt = "simulatePostChangeMetrics"
                            THEN activeSessions
                            ELSE [activeSessions EXCEPT ![sessionId] = measured]
                reason == IF path = "try" THEN join(validation.issues)
                          ELSE "Validation error"
            IN  IF path = "try" /\ validation.recommendation = "keep"
                                /\ validation.isValid
                THEN /\ completedSessions' = Append(completedSessions,
                            [measured EXCEPT
                                !.status = SUCCESSFUL,
                                !.improvementMeasured = validation.improvementPercent,
                                !.endTime = TRUE])
                     /\ activeSessions' = delete(sessions, sessionId)
                     /\ UNCHANGED validations
                ELSE LET rolled == rolledBack(sessions, sessionId, reason)
                     IN  IF found(backupId) /\ ~isVirtual(find(backupId).configFile)
                         THEN /\ validations' = validations \cup
                                    {[sessionId |-> sessionId,
                                      backupId |-> backupId,
                                      configFile |-> find(backupId).configFile,
                                      content |-> find(backupId).originalContent,
                                      path |-> path,
                                      io |-> io]}
                              /\ activeSessions' = rolled
                              /\ UNCHANGED completedSessions
                         ELSE /\ finalize(path, rolled, sessionId)
                              /\ UNCHANGED validations
        /\ UNCHANGED <<config, backups, backupDir, files, calls,
                       nextSessionId, nextBackupId, original, outside>>

(* fs.writeFile of rollbackChange completes; a failure is logged there *)
rollbackChange_write(v) ==
    /\ v \in validations
    /\ validations' = validations \ {v}
    /\ files' = IF v.io = "ok" /\ files[v.configFile].writable
                THEN [files EXCEPT ![v.configFile].content = v.content]
                ELSE files
    /\ finalize(v.path, activeSessions, v.sessionId)
    /\ UNCHANGED <<config, backups, backupDir, calls, timers,
                   nextSessionId, nextBackupId, original, outside>>

(***************************************************************************)
(* Housekeeping and time                                                   *)
(***************************************************************************)
isOld(backup) == backup.age > config.backupRetention

(* The cutoff is taken once, at the start, and a backup made while the     *)
(* fs.remove calls are awaited is younger than it: the run purges exactly  *)
(* the backups that were old when it started.                              *)
cleanupOldBackups ==
    LET oldBackups == {backups[i].id : i \in {j \in DOMAIN backups : isOld(backups[j])}}
        kept(backup) == ~isOld(backup)
    IN  /\ oldBackups # {}
        /\ backupDir' = backupDir \ oldBackups
        /\ backups' = SelectSeq(backups, kept)
        /\ UNCHANGED <<config, activeSessions, completedSessions, files, calls,
                       timers, validations, nextSessionId, nextBackupId, original, outside>>

aged(backup) ==
    IF backup.id = 0 THEN backup
    ELSE [backup EXCEPT !.age = Min(@ + 1, config.backupRetention + 1)]

(* One unit of time passes *)
Tick ==
    /\ timers' = {[t EXCEPT !.remaining = Max(0, @ - 1)] : t \in timers}
    /\ backups' = [i \in DOMAIN backups |-> aged(backups[i])]
    /\ calls' = [c \in Calls |->
            [calls[c] EXCEPT !.creating = aged(@)]]
    /\ UNCHANGED <<config, activeSessions, completedSessions, backupDir, files,
                   validations, nextSessionId, nextBackupId, original, outside>>

(***************************************************************************)
(* Specification                                                           *)
(***************************************************************************)
Batches == UNION {[1..n -> SuggestionIds] : n \in 0..MaxBatch}

Next ==
    \/ \E c \in Calls, suggestions \in Batches, m \in MetricsSummaries :
            processSuggestions(c, suggestions, m)
    \/ \E c \in Calls, ok \in BOOLEAN : createBackup_read(c, ok)
    \/ \E c \in Calls, ok \in BOOLEAN : createBackup_write(c, ok)
    \/ \E c \in Calls, ok \in BOOLEAN : apply_read(c, ok)
    \/ \E c \in Calls, ok \in BOOLEAN : apply_write(c, ok)
    \/ \E t \in timers, draw \in Draws, throwsAt \in ThrowPoints,
          io \in {"ok", "fails"} : validateAndFinalize(t, draw, throwsAt, io)
    \/ \E v \in validations : rollbackChange_write(v)
    \/ cleanupOldBackups
    \/ Tick

Spec == Init /\ [][Next]_vars


(* Timers fire, file operations complete and time passes; nobody has to    *)
(* call processSuggestions or cleanupOldBackups.                           *)
Fairness ==
    /\ WF_vars(Tick)
    /\ \A c \in Calls :
        /\ WF_vars(\E ok \in BOOLEAN : createBackup_read(c, ok))
        /\ WF_vars(\E ok \in BOOLEAN : createBackup_write(c, ok))
        /\ WF_vars(\E ok \in BOOLEAN : apply_read(c, ok))
        /\ WF_vars(\E ok \in BOOLEAN : apply_write(c, ok))
    /\ WF_vars(\E t \in timers, draw \in Draws, throwsAt \in ThrowPoints,
                  io \in {"ok", "fails"} : validateAndFinalize(t, draw, throwsAt, io))
    /\ WF_vars(\E v \in validations : rollbackChange_write(v))

FairSpec == Spec /\ Fairness

(***************************************************************************)
(* The engine from its constructor on, with its statistics                 *)
(***************************************************************************)
(* A quotient the code computes in floating point, kept as a fraction *)
Ratio(num, den) == [num |-> num, den |-> den]

getSuccessfulTunings ==
    LET successful(session) == session.status = SUCCESSFUL
    IN  SelectSeq(completedSessions, successful)

(* Array.prototype.reduce((sum, s) => sum + (s.improvementMeasured || 0), 0) *)
RECURSIVE reduce(_)
reduce(sessions) ==
    IF sessions = <<>> THEN 0
    ELSE Head(sessions).improvementMeasured + reduce(Tail(sessions))

(* getTuningStats that averages over all completed sessions *)
tuningStats_avgOverAll ==
    LET total == Len(completedSessions)
        successful == Len(getSuccessfulTunings)
        isRolledBack(session) == session.status = ROLLED_BACK
        rolledBackCount == Len(SelectSeq(completedSessions, isRolledBack))
        avgImprovement == IF successful > 0
                          THEN Ratio(reduce(getSuccessfulTunings), total)
                          ELSE Ratio(0, 1)
    IN  [totalSessions |-> total,
         successful |-> successful,
         rolledBack |-> rolledBackCount,
         successRate |-> IF total > 0 THEN Ratio(successful * 100, total)
                         ELSE Ratio(0, 1),
         avgImprovement |-> avgImprovement]

(* The object getTuningStats returns *)
tuningStats ==
    LET total == Len(completedSessions)
        successful == Len(getSuccessfulTunings)
        isRolledBack(session) == session.status = ROLLED_BACK
        rolledBackCount == Len(SelectSeq(completedSessions, isRolledBack))
        avgImprovement == IF successful > 0
                          THEN Ratio(reduce(getSuccessfulTunings), successful)
                          ELSE Ratio(0, 1)
    IN  [totalSessions |-> total,
         successful |-> successful,
         rolledBack |-> rolledBackCount,
         successRate |-> IF total > 0 THEN Ratio(successful * 100, total)
                         ELSE Ratio(0, 1),
         avgImprovement |-> avgImprovement]

(* A caller asks for the statistics *)
getTuningStats ==
    /\ stats' = tuningStats
    /\ UNCHANGED <<config, activeSessions, backups, completedSessions, backupDir,
                   files, calls, timers, validations, nextSessionId,
                   nextBackupId, original, ensured, isRunning, alive, escaped,
                   work, others>>

(* The engine once the directory work of its constructor is over *)
EngineInit ==
    /\ config \in Configs
    /\ constructed
    /\ \E ok \in BOOLEAN : ensured = ensureBackupDirectory(ok)
    /\ analysisConfig = StartedAnalysisConfig
    /\ load = "calm"
    /\ deployment = "one"

EngineNext ==
    \/ Next
    \/ getTuningStats

EngineSpec == EngineInit /\ [][EngineNext]_vars

(***************************************************************************)
(* ConfigFlow (src/src/index.ts): the periodic callbacks and the shutdown  *)
(***************************************************************************)
(* The engine as start() constructs it.  ConfigFlow never calls            *)
(* cleanupOldBackups, so the retention plays no part here.                 *)
FlowConfig ==
    [enabled |-> TRUE, safetyMode |-> TRUE, maxConcurrentChanges |-> 1,
     approvalRequired |-> FALSE, riskThreshold |-> "low", testDuration |-> 1,
     backupRetention |-> 0]

(* start() has returned: the engine is built and the intervals are set *)
FlowInit ==
    /\ config = FlowConfig
    /\ constructed
    /\ ensured = ensureBackupDirectory(TRUE)
    /\ analysisConfig = StartedAnalysisConfig
    /\ load = "calm"
    /\ deployment = "one"

(* The texts that writes still in flight would leave in a file *)
inFlight(f) ==
    {calls[c].pending :
        c \in {d \in Calls : /\ calls[d].pc = "apply_write"
                             /\ Suggestion[calls[d].suggestion].configFile = f}}
    \cup {v.content : v \in {w \in validations : w.configFile = f /\ w.io = "ok"}}

(* The .backup files whose write is still in flight *)
storing == {calls[c].creating.id : c \in {d \in Calls : calls[d].pc = "createBackup_write"}}

(* What the files can hold once the process is gone: each write in flight  *)
(* has landed or not.                                                      *)
Landings ==
    LET texts(f) == inFlight(f) \cup {files[f].content}
    IN  {landed \in [Files -> UNION {texts(f) : f \in Files}] :
            \A f \in Files : landed[f] \in texts(f)}

(* The process ends: every pending callback is dropped.  The sessions are  *)
(* kept as they were, to tell what was abandoned.                          *)
exit(landed, stored) ==
    /\ alive' = FALSE
    /\ calls' = [c \in Calls |-> IdleCall]
    /\ timers' = {}
    /\ validations' = {}
    /\ files' = [f \in Files |-> [files[f] EXCEPT !.content = landed[f]]]
    /\ backupDir' = backupDir \cup stored
    /\ UNCHANGED <<config, activeSessions, backups, completedSessions,
                   nextSessionId, nextBackupId, original, ensured, stats,
                   others>>

(* An exception leaves a callback: nothing handles the rejection and       *)
(* Node.js (16 and later) ends the process.                                *)
uncaught(landed, stored) ==
    /\ escaped' = TRUE
    /\ exit(landed, stored)

engine == <<config, activeSessions, backups, completedSessions, backupDir, files,
            calls, timers, validations, nextSessionId, nextBackupId, original,
            ensured, stats>>

(* The setInterval callback of startPeriodicAnalysis: no try/catch *)
startPeriodicAnalysis(throws, landed, stored) ==
    /\ alive
    /\ IF ~isRunning
       THEN UNCHANGED vars
       ELSE IF throws
            THEN uncaught(landed, stored) /\ UNCHANGED <<isRunning, work>>
            ELSE work' = "analysis" /\ UNCHANGED <<engine, isRunning, alive, escaped, others>>

(* The setInterval callback of startPeriodicOptimization: its catch logs *)
startPeriodicOptimization(throws) ==
    /\ alive
    /\ IF isRunning /\ ~throws
       THEN work' = "optimization" /\ UNCHANGED <<engine, isRunning, alive, escaped, others>>
       ELSE UNCHANGED vars

hasBeenProcessed(suggestionId) ==
    \/ \E s \in DOMAIN activeSessions : activeSessions[s].suggestionId = suggestionId
    \/ \E i \in DOMAIN completedSessions :
            completedSessions[i].suggestionId = suggestionId

(* The setInterval callback of startPeriodicAutoTuning: its catch logs *)
startPeriodicAutoTuning(c, suggestions, recentMetrics, throws) ==
    /\ alive
    /\ LET isNew(id) == ~hasBeenProcessed(id)
           newSuggestions == SelectSeq(suggestions, isNew)
       IN  IF isRunning /\ ~throws /\ newSuggestions # <<>>
           THEN processSuggestions(c, newSuggestions, recentMetrics)
           ELSE UNCHANGED vars

(* The setInterval callback of startStatusReports: no try/catch *)
startStatusReports(throws, landed, stored) ==
    /\ alive
    /\ IF ~isRunning
       THEN UNCHANGED vars
       ELSE IF throws
            THEN uncaught(landed, stored) /\ UNCHANGED <<isRunning, work>>
            ELSE work' = "status" /\ UNCHANGED <<engine, isRunning, alive, escaped, others>>

(* stop() that is not followed by process.exit *)
stop_withoutExit(landed, stored) ==
    /\ alive
    /\ isRunning' = FALSE
    /\ UNCHANGED <<engine, alive, escaped, work, others>>

(* The SIGINT and SIGTERM handlers: await configFlow.stop(), then          *)
(* process.exit(0).  stop() awaits nothing that lets a timer or a file     *)
(* completion in.                                                          *)
stop(landed, stored) ==
    /\ alive
    /\ isRunning' = FALSE
    /\ exit(landed, stored)
    /\ UNCHANGED <<escaped, work>>

FlowNext ==
    \/ \E throws \in BOOLEAN, landed \in Landings, stored \in SUBSET storing :
            startPeriodicAnalysis(throws, landed, stored)
    \/ \E throws \in BOOLEAN : startPeriodicOptimization(throws)
    \/ \E c \in Calls, suggestions \in Batches, m \in MetricsSummaries,
          throws \in BOOLEAN : startPeriodicAutoTuning(c, suggestions, m, throws)
    \/ \E throws \in BOOLEAN, landed \in Landings, stored \in SUBSET storing :
            startStatusReports(throws, landed, stored)
    \/ \E c \in Calls, ok \in BOOLEAN : createBackup_read(c, ok)
    \/ \E c \in Calls, ok \in BOOLEAN : createBackup_write(c, ok)
    \/ \E c \in Calls, ok \in BOOLEAN : apply_read(c, ok)
    \/ \E c \in Calls, ok \in BOOLEAN : apply_write(c, ok)
    \/ \E t \in timers, draw \in Draws, throwsAt \in ThrowPoints,
          io \in {"ok", "fails"} : validateAndFinalize(t, draw, throwsAt, io)
    \/ \E v \in validations : rollbackChange_write(v)
    \/ Tick
    \/ \E landed \in Landings, stored \in SUBSET storing : stop(landed, stored)

FlowSpec == FlowInit /\ [][FlowNext]_vars

(***************************************************************************)
(* ImpactAnalyzer (src/unnamed/part_000)                                   *)
(*                                                                         *)
(* Numbers are fixed-point with two decimals: Scale stands for 1.00 and a  *)
(* quotient drops what lies beyond the second decimal.  The cpu and memory *)
(* percentages of a snapshot are whole numbers; averages, deltas,          *)
(* stabilities, scores and confidences are in hundredths.  Time is counted *)
(* in ticks and the analysis window is Window ticks long.                  *)
(***************************************************************************)
Scale == 100
Window == 5
MaxTime == 8
MaxChanges == 2
MaxAnalyses == 2

undefined == "undefined"

AnalysisConfig(minSampleSize) ==
    [minSampleSize |-> minSampleSize, stabilityThreshold |-> 15,
     significanceThreshold |-> 5, analysisWindow |-> Window]

(* The minSampleSize of the constructor's default and the one that         *)
(* ConfigFlow.start asks for                                               *)
AnalysisConfigs == {AnalysisConfig(5), AnalysisConfig(3)}

Snapshot(t, cpu, memory, hash) ==
    [timestamp |-> t, cpu |-> cpu, memory |-> memory, configHash |-> hash]

(* The load of the process over time: steady, or rising after tick Window. *)
(* cpu is the usage that pidusage reports, which exceeds 100 on several    *)
(* cores.                                                                  *)
Profiles == {"calm", "step", "surge"}
usage(profile, t) ==
    CASE profile = "calm" -> [cpu |-> 10, memory |-> 40]
      [] profile = "step" -> IF t <= Window THEN [cpu |-> 10, memory |-> 40]
                                            ELSE [cpu |-> 20, memory |-> 40]
      [] OTHER -> IF t <= Window THEN [cpu |-> 10, memory |-> 40]
                                 ELSE [cpu |-> 300, memory |-> 90]

(* The configuration in force over time: one, or a second after tick       *)
(* Switch                                                                  *)
Switch == 2
Deployments == {"one", "two"}
hashAt(deployed, t) ==
    IF deployed = "two" /\ t > Switch THEN "H2" ELSE "H1"

(* What the analyzer is run against: a steady load under two successive    *)
(* configurations, or a rising load under one                              *)
Worlds == {<<"calm", "two">>, <<"surge", "one">>}

(* One snapshot per tick from..to *)
series(from, to) ==
    [i \in 1..(to - from + 1) |->
        Snapshot(from + i - 1, usage(load, from + i - 1).cpu,
                 usage(load, from + i - 1).memory,
                 hashAt(deployment, from + i - 1))]

(* The histories a caller can hand to analyzeMetrics at this time: what    *)
(* was collected up to now or up to the tick before, the oldest snapshots  *)
(* dropped or not                                                          *)
MaxDropped == 2
Histories ==
    {series(from, to) : from \in 0..Min(MaxDropped, now + 1),
                        to \in {now - 1, now} \cap Nat}

RECURSIVE sum(_)
sum(numbers) ==
    IF numbers = <<>> THEN 0 ELSE Head(numbers) + sum(Tail(numbers))

abs(x) == IF x < 0 THEN -x ELSE x

(* a / b to the last kept decimal, towards zero *)
quotient(a, b) == IF a < 0 THEN -((-a) \div b) ELSE a \div b

RECURSIVE root(_, _, _)
root(x, low, high) ==
    IF low = high THEN low
    ELSE LET mid == (low + high + 1) \div 2
         IN  IF mid * mid <= x THEN root(x, mid, high) ELSE root(x, low, mid - 1)

sqrt(x) == root(x, 0, 46340)

cpuOf(snapshots) == [i \in DOMAIN snapshots |-> snapshots[i].cpu]
memoryOf(snapshots) == [i \in DOMAIN snapshots |-> snapshots[i].memory]

(* of whole percentages, in hundredths *)
average(numbers) == quotient(sum(numbers) * Scale, Len(numbers))

max(numbers) ==
    CHOOSE x \in {numbers[i] : i \in DOMAIN numbers} :
        \A i \in DOMAIN numbers : numbers[i] <= x

(* calculateStability that leaves out the floor at 0 *)
calculateStability_unbounded(values) ==
    IF Len(values) < 2 THEN Scale
    ELSE LET mean == average(values)
             squares == [i \in DOMAIN values |->
                            (values[i] * Scale - mean) * (values[i] * Scale - mean)]
             variance == quotient(sum(squares), Len(values))
             stdDev == sqrt(variance)
             coefficientOfVariation ==
                 IF mean > 0 THEN quotient(stdDev * Scale, mean) ELSE 0
         IN  Scale - coefficientOfVariation

calculateStability(values) ==
    IF Len(values) < 2 THEN Scale
    ELSE LET mean == average(values)
             squares == [i \in DOMAIN values |->
                            (values[i] * Scale - mean) * (values[i] * Scale - mean)]
             variance == quotient(sum(squares), Len(values))
             stdDev == sqrt(variance)
             coefficientOfVariation ==
                 IF mean > 0 THEN quotient(stdDev * Scale, mean) ELSE 0
         IN  Max(0, Scale - coefficientOfVariation)

(* calculateBaseline that carries the previous baseline's samples along *)
calculateBaseline_merged(configHash, snapshots) ==
    LET cpuValues == cpuOf(snapshots)
        memoryValues == memoryOf(snapshots)
        earlier == IF configHash \in DOMAIN baselines
                   THEN baselines[configHash].metrics.sampleCount ELSE 0
    IN  [configHash |-> configHash,
         timestamp |-> now,
         metrics |-> [avgCpu |-> average(cpuValues),
                      avgMemory |-> average(memoryValues),
                      maxCpu |-> max(cpuValues),
                      maxMemory |-> max(memoryValues),
                      sampleCount |-> earlier + Len(snapshots)],
         stability |-> quotient(calculateStability(cpuValues)
                                + calculateStability(memoryValues), 2)]

calculateBaseline(configHash, snapshots) ==
    LET cpuValues == cpuOf(snapshots)
        memoryValues == memoryOf(snapshots)
    IN  [configHash |-> configHash,
         timestamp |-> now,
         metrics |-> [avgCpu |-> average(cpuValues),
                      avgMemory |-> average(memoryValues),
                      maxCpu |-> max(cpuValues),
                      maxMemory |-> max(memoryValues),
                      sampleCount |-> Len(snapshots)],
         stability |-> quotient(calculateStability(cpuValues)
                                + calculateStability(memoryValues), 2)]

(* configGroups.get(configHash) *)
groupOf(configHash, metricsHistory) ==
    LET shares(m) == m.configHash = configHash
    IN  SelectSeq(metricsHistory, shares)

(* The hashes whose group is large enough for a baseline *)
sampled(metricsHistory) ==
    {configHash \in {metricsHistory[i].configHash : i \in DOMAIN metricsHistory} :
        Len(groupOf(configHash, metricsHistory)) >= analysisConfig.minSampleSize}

updateBaselines(metricsHistory) ==
    [configHash \in DOMAIN baselines \cup sampled(metricsHistory) |->
        IF configHash \in sampled(metricsHistory)
        THEN calculateBaseline(configHash, groupOf(configHash, metricsHistory))
        ELSE baselines[configHash]]

(* beforeMetrics that counts the snapshots stamped at the change itself *)
beforeMetrics_atChange(change, metricsHistory) ==
    LET inWindow(m) ==
            /\ m.timestamp <= change.timestamp
            /\ m.timestamp > change.timestamp - analysisConfig.analysisWindow
    IN  SelectSeq(metricsHistory, inWindow)

beforeMetrics(change, metricsHistory) ==
    LET inWindow(m) ==
            /\ m.timestamp < change.timestamp
            /\ m.timestamp > change.timestamp - analysisConfig.analysisWindow
    IN  SelectSeq(metricsHistory, inWindow)

afterMetrics(change, metricsHistory) ==
    LET inWindow(m) ==
            /\ m.timestamp > change.timestamp
            /\ m.timestamp < change.timestamp + analysisConfig.analysisWindow
    IN  SelectSeq(metricsHistory, inWindow)

(* calculateImpactScore that returns the weighted sum as it is *)
calculateImpactScore_unclamped(cpuDelta, memoryDelta, stabilityDelta) ==
    0 - quotient(cpuDelta * 4, 1000) - quotient(memoryDelta * 3, 1000)
      + quotient(stabilityDelta * 3, 10)

(* The deltas of cpu and memory are in hundredths of a percent: a hundredth *)
(* of the score is 0.4 / 100 of cpuDelta / 100.                             *)
calculateImpactScore(cpuDelta, memoryDelta, stabilityDelta) ==
    LET score == 0 - quotient(cpuDelta * 4, 1000) - quotient(memoryDelta * 3, 1000)
                   + quotient(stabilityDelta * 3, 10)
    IN  Max(-Scale, Min(Scale, score))

calculateConfidence(beforeSamples, afterSamples, impactMagnitude) ==
    LET minSamples == Min(beforeSamples, afterSamples)
        sampleConfidence == Min(Scale, quotient(minSamples * Scale, 10))
        magnitudeConfidence == Min(Scale, impactMagnitude * 10)
    IN  quotient(sampleConfidence + magnitudeConfidence, 2)

generateEvidence(cpuDelta, memoryDelta, stabilityDelta) ==
    LET cpu == IF abs(cpuDelta) > analysisConfig.significanceThreshold * Scale
               THEN <<[of |-> "CPU usage", rose |-> cpuDelta > 0, by |-> abs(cpuDelta)]>>
               ELSE <<>>
        memory == IF abs(memoryDelta) > analysisConfig.significanceThreshold * Scale
                  THEN <<[of |-> "Memory usage", rose |-> memoryDelta > 0,
                          by |-> abs(memoryDelta)]>>
                  ELSE <<>>
        stability == IF abs(stabilityDelta) > analysisConfig.significanceThreshold
                     THEN <<[of |-> "System stability", rose |-> stabilityDelta > 0,
                             by |-> abs(stabilityDelta)]>>
                     ELSE <<>>
        evidence == cpu \o memory \o stability
    IN  IF evidence = <<>>
        THEN <<[of |-> "No significant performance impact detected",
                rose |-> FALSE, by |-> 0]>>
        ELSE evidence

(* A recommendation that also tells how many analyses came before *)
generateRecommendation_counted(impactScore, configFile) ==
    [finding |-> IF Len(analysisResults) > 0 THEN "Impact detected again"
                 ELSE IF impactScore > 30 THEN "Positive impact detected"
                 ELSE IF impactScore < -30 THEN "Negative impact detected"
                 ELSE IF abs(impactScore) < 10 THEN "Minimal impact detected"
                 ELSE "Minor impact detected",
     configFile |-> configFile]

generateRecommendation(impactScore, configFile) ==
    [finding |-> IF impactScore > 30 THEN "Positive impact detected"
                 ELSE IF impactScore < -30 THEN "Negative impact detected"
                 ELSE IF abs(impactScore) < 10 THEN "Minimal impact detected"
                 ELSE "Minor impact detected",
     configFile |-> configFile]

(* return null *)
NoAnalysis == [changeId |-> 0]

(* An analysis whose recommendation goes by the size of the score *)
analyzeChangeImpact_byMagnitude(change, metricsHistory) ==
    LET before == beforeMetrics(change, metricsHistory)
        after == afterMetrics(change, metricsHistory)
        cpuDelta == average(cpuOf(after)) - average(cpuOf(before))
        memoryDelta == average(memoryOf(after)) - average(memoryOf(before))
        stabilityDelta == calculateStability(cpuOf(after))
                            - calculateStability(cpuOf(before))
        impactScore == calculateImpactScore(cpuDelta, memoryDelta, stabilityDelta)
    IN  IF Len(before) < 3 \/ Len(after) < 3
        THEN NoAnalysis
        ELSE [changeId |-> change.id,
              configFile |-> change.configFile,
              parameter |-> change.parameter,
              impactScore |-> impactScore,
              confidence |-> calculateConfidence(Len(before), Len(after),
                                                 abs(impactScore)),
              metrics |-> [cpuDelta |-> cpuDelta, memoryDelta |-> memoryDelta,
                           stabilityDelta |-> stabilityDelta],
              recommendation |-> generateRecommendation(abs(impactScore),
                                                       change.configFile),
              evidence |-> generateEvidence(cpuDelta, memoryDelta, stabilityDelta)]

analyzeChangeImpact(change, metricsHistory) ==
    LET before == beforeMetrics(change, metricsHistory)
        after == afterMetrics(change, metricsHistory)
        cpuDelta == average(cpuOf(after)) - average(cpuOf(before))
        memoryDelta == average(memoryOf(after)) - average(memoryOf(before))
        stabilityDelta == calculateStability(cpuOf(after))
                            - calculateStability(cpuOf(before))
        impactScore == calculateImpactScore(cpuDelta, memoryDelta, stabilityDelta)
    IN  IF Len(before) < 3 \/ Len(after) < 3
        THEN NoAnalysis
        ELSE [changeId |-> change.id,
              configFile |-> change.configFile,
              parameter |-> change.parameter,
              impactScore |-> impactScore,
              confidence |-> calculateConfidence(Len(before), Len(after),
                                                 abs(impactScore)),
              metrics |-> [cpuDelta |-> cpuDelta, memoryDelta |-> memoryDelta,
                           stabilityDelta |-> stabilityDelta],
              recommendation |-> generateRecommendation(impactScore, change.configFile),
              evidence |-> generateEvidence(cpuDelta, memoryDelta, stabilityDelta)]

getRecentChanges ==
    LET cutoff == now - analysisConfig.analysisWindow
        recent(change) == change.timestamp > cutoff
    IN  SelectSeq(changeHistory, recent)

(* A cleanup that keeps the events stamped at the cutoff *)
cleanupOldChanges_inclusive(changes) ==
    LET cutoff == now - analysisConfig.analysisWindow * 2
        recent(change) == change.timestamp >= cutoff
    IN  SelectSeq(changes, recent)

cleanupOldChanges(changes) ==
    LET cutoff == now - analysisConfig.analysisWindow * 2
        recent(change) == change.timestamp > cutoff
    IN  SelectSeq(changes, recent)

generateChangeId == nextChangeId
generateConfigHash(configFile, timestamp) == <<configFile, timestamp>>

(* The changes of getRecentChanges that analyzeChangeImpact has an         *)
(* analysis for, each with that analysis                                   *)
analyzeRecentChanges(metricsHistory) ==
    LET recentChanges == getRecentChanges
        attempts == [i \in DOMAIN recentChanges |->
                        [change |-> recentChanges[i],
                         analysis |-> analyzeChangeImpact(recentChanges[i],
                                                          metricsHistory)]]
        produced(attempt) == attempt.analysis # NoAnalysis
    IN  SelectSeq(attempts, produced)

(* Everything but the analyzer *)
beside == <<config, activeSessions, backups, completedSessions, backupDir, files,
            calls, timers, validations, nextSessionId, nextBackupId, original,
            ensured, stats, isRunning, alive, escaped, work, optimizer, reader>>

recordConfigChange(configFile, changeType) ==
    LET changeEvent == [id |-> generateChangeId,
                        timestamp |-> now,
                        configFile |-> configFile,
                        changeType |-> changeType,
                        parameter |-> undefined,
                        configHash |-> generateConfigHash(configFile, now)]
    IN  /\ nextChangeId <= MaxChanges
        /\ changeHistory' = cleanupOldChanges(Append(changeHistory, changeEvent))
        /\ nextChangeId' = nextChangeId + 1
        /\ UNCHANGED <<analysisConfig, baselines, analysisResults, now, runs,
                       grouped, load, deployment, beside>>

(* analyzeMetrics without the early return *)
analyzeMetrics_always(metricsHistory) ==
    LET analyses == analyzeRecentChanges(metricsHistory)
    IN  /\ UNCHANGED <<analysisConfig, changeHistory, now, nextChangeId,
                       load, deployment, beside>>
        /\ grouped' = [configHash \in DOMAIN grouped \cup sampled(metricsHistory) |->
                           IF configHash \in sampled(metricsHistory)
                           THEN groupOf(configHash, metricsHistory)
                           ELSE grouped[configHash]]
        /\ Len(analysisResults) + Len(analyses) <= MaxAnalyses
        /\ baselines' = updateBaselines(metricsHistory)
        /\ analysisResults' = analysisResults
               \o [i \in DOMAIN analyses |-> analyses[i].analysis]
        /\ runs' = runs
               \o [i \in DOMAIN analyses |->
                       [change |-> analyses[i].change,
                        metricsHistory |-> metricsHistory,
                        at |-> now,
                        after |-> Len(analysisResults)]]

(* updateBaselines and analyzeRecentChanges await nothing that lets        *)
(* another callback in: the call is one step.                              *)
analyzeMetrics(metricsHistory) ==
    IF Len(metricsHistory) < analysisConfig.minSampleSize
    THEN UNCHANGED vars
    ELSE LET analyses == analyzeRecentChanges(metricsHistory)
         IN  /\ UNCHANGED <<analysisConfig, changeHistory, now, nextChangeId,
                            load, deployment, beside>>
             /\ grouped' = [configHash \in DOMAIN grouped \cup sampled(metricsHistory) |->
                                IF configHash \in sampled(metricsHistory)
                                THEN groupOf(configHash, metricsHistory)
                                ELSE grouped[configHash]]
             /\ Len(analysisResults) + Len(analyses) <= MaxAnalyses
             /\ baselines' = updateBaselines(metricsHistory)
             /\ analysisResults' = analysisResults
                    \o [i \in DOMAIN analyses |-> analyses[i].analysis]
             /\ runs' = runs
                    \o [i \in DOMAIN analyses |->
                            [change |-> analyses[i].change,
                             metricsHistory |-> metricsHistory,
                             at |-> now,
                             after |-> Len(analysisResults)]]

(* A tick of the clock *)
elapse ==
    /\ now < MaxTime
    /\ now' = now + 1
    /\ UNCHANGED <<analysisConfig, baselines, changeHistory, analysisResults,
                   nextChangeId, runs, grouped, load, deployment, beside>>

AnalyzerInit ==
    /\ config = FlowConfig
    /\ constructed
    /\ ensured = ensureBackupDirectory(TRUE)
    /\ analysisConfig \in AnalysisConfigs
    /\ \E world \in Worlds : load = world[1] /\ deployment = world[2]

AnalyzerNext ==
    \/ \E changeType \in {"modified"} : recordConfigChange("app.json", changeType)
    \/ \E metricsHistory \in Histories : analyzeMetrics(metricsHistory)
    \/ elapse

AnalyzerSpec == AnalyzerInit /\ [][AnalyzerNext]_vars

(***************************************************************************)
(* OptimizationEngine                                                      *)
(*                                                                         *)
(* Confidences are in hundredths like the analyzer's numbers.  The ids of  *)
(* generateSuggestionId (the time and a random suffix) are fresh numbers.  *)
(* The four passes await nothing that lets another callback in, so one     *)
(* generateSuggestions call is one step.                                   *)
(***************************************************************************)
MaxSuggestions == 4

OptimizationSuggestion(id, priority, category, file, param, conf, risk) ==
    [id |-> id, timestamp |-> now, priority |-> priority, category |-> category,
     configFile |-> file, parameter |-> param, confidence |-> conf,
     riskLevel |-> risk]

(* The fields of an ImpactAnalysis that the engine reads *)
Analysed(configFile, impactScore, confidence) ==
    [configFile |-> configFile, parameter |-> undefined,
     impactScore |-> impactScore, confidence |-> confidence]

AnalysesGiven ==
    {<<>>,
     <<Analysed("app.json", 10, 30)>>,
     <<Analysed("app.json", -30, 65)>>,
     <<Analysed("app.json", -50, 85)>>,
     <<Analysed("app.json", -50, 55), Analysed("app.json", -40, 90)>>,
     <<Analysed("db.json", -40, 55), Analysed("app.json", -50, 85)>>}

(* The fields of a PerformanceBaseline that the engine reads *)
BaselinesGiven ==
    {<<>>,
     <<[configHash |-> "H1", stability |-> 100]>>,
     <<[configHash |-> "H1", stability |-> 70]>>,
     <<[configHash |-> "H1", stability |-> 50],
       [configHash |-> "H2", stability |-> 60]>>}

repeated(n, cpu, memory) == [i \in 1..n |-> Snapshot(i, cpu, memory, "H1")]

HistoriesGiven ==
    {<<>>,
     repeated(5, 10, 40),
     repeated(5, 300, 90),
     repeated(5, 10, 85),
     repeated(5, 70, 80),
     repeated(1, 300, 90) \o repeated(5, 10, 40),
     repeated(1, 10, 40) \o repeated(5, 300, 90)}

generateSuggestionId(k) == nextSuggestionId + k

calculateLatestMetrics(metricsHistory) ==
    IF Len(metricsHistory) = 0
    THEN [cpuUsage |-> 0, memoryUsage |-> 0]
    ELSE LET recent == SubSeq(metricsHistory, Max(1, Len(metricsHistory) - 4),
                              Len(metricsHistory))
         IN  [cpuUsage |-> average(cpuOf(recent)),
              memoryUsage |-> average(memoryOf(recent))]

(* Each pass takes the number of ids drawn before it *)
(* A pass that gives its suggestions a confidence of its own *)
analyzePoorPerformance_assured(drawn, analyses) ==
    LET poor(a) == a.impactScore < -30
        poorPerformers == SelectSeq(analyses, poor)
    IN  [i \in DOMAIN poorPerformers |->
            OptimizationSuggestion(
                generateSuggestionId(drawn + i - 1), "high", "performance",
                poorPerformers[i].configFile,
                IF poorPerformers[i].parameter = undefined
                THEN "unknown" ELSE poorPerformers[i].parameter,
                80, "low")]

analyzePoorPerformance(drawn, analyses) ==
    LET poor(a) == a.impactScore < -30
        poorPerformers == SelectSeq(analyses, poor)
    IN  [i \in DOMAIN poorPerformers |->
            OptimizationSuggestion(
                generateSuggestionId(drawn + i - 1), "high", "performance",
                poorPerformers[i].configFile,
                IF poorPerformers[i].parameter = undefined
                THEN "unknown" ELSE poorPerformers[i].parameter,
                poorPerformers[i].confidence, "low")]

identifyResourceOptimizations(drawn, latestMetrics, configFiles) ==
    LET memory ==
            IF latestMetrics.memoryUsage > 85 * Scale
            THEN <<OptimizationSuggestion(generateSuggestionId(drawn), "high",
                        "memory", "system", "memory_management", 80, "medium")>>
            ELSE <<>>
        cpu ==
            IF latestMetrics.cpuUsage > 70 * Scale
            THEN <<OptimizationSuggestion(generateSuggestionId(drawn + Len(memory)),
                        "medium", "performance", "system", "cpu_optimization",
                        70, "medium")>>
            ELSE <<>>
    IN  memory \o cpu

detectStabilityIssues(drawn, baselineList, metricsHistory) ==
    LET unstable(b) == b.stability < 70
        unstableBaselines == SelectSeq(baselineList, unstable)
    IN  [i \in DOMAIN unstableBaselines |->
            OptimizationSuggestion(
                generateSuggestionId(drawn + i - 1), "medium", "stability",
                "configuration", "stability_optimization", 60, "low")]

applyAlgorithmicOptimizations(drawn, configFiles, latestMetrics) ==
    IF latestMetrics.memoryUsage > 80 * Scale
    THEN <<OptimizationSuggestion(generateSuggestionId(drawn), "medium",
                "resource", "algorithmic_optimization",
                "memory_ratio_optimization", 75, "low")>>
    ELSE <<>>

priorityOrder(priority) ==
    CASE priority = "critical" -> 4
      [] priority = "high" -> 3
      [] priority = "medium" -> 2
      [] priority = "low" -> 1

(* The comparator of the sort: negative when a goes before b *)
compare(a, b) ==
    IF priorityOrder(a.priority) # priorityOrder(b.priority)
    THEN priorityOrder(b.priority) - priorityOrder(a.priority)
    ELSE b.confidence - a.confidence

(* self.findIndex of the pair of one suggestion *)
findIndex(self, suggestion) ==
    CHOOSE i \in DOMAIN self :
        /\ self[i].configFile = suggestion.configFile
        /\ self[i].parameter = suggestion.parameter
        /\ \A j \in 1..(i - 1) :
                ~(/\ self[j].configFile = suggestion.configFile
                  /\ self[j].parameter = suggestion.parameter)

(* Array.prototype.sort is stable: an element goes after its equals *)
RECURSIVE sort(_)
sort(list) ==
    IF list = <<>>
    THEN <<>>
    ELSE LET sorted == sort(SubSeq(list, 1, Len(list) - 1))
             x == list[Len(list)]
             ahead == {k \in DOMAIN sorted : compare(x, sorted[k]) >= 0}
         IN  SubSeq(sorted, 1, Cardinality(ahead)) \o <<x>>
                \o SubSeq(sorted, Cardinality(ahead) + 1, Len(sorted))

(* A sort that orders by priority alone *)
filterAndPrioritizeSuggestions_byPriority(generated) ==
    LET kept == {i \in DOMAIN generated : i = findIndex(generated, generated[i])}
        uniqueSuggestions ==
            [n \in 1..Cardinality(kept) |->
                generated[CHOOSE i \in kept :
                            Cardinality({j \in kept : j <= i}) = n]]
        rank(n) == Cardinality({m \in DOMAIN uniqueSuggestions :
                        \/ priorityOrder(uniqueSuggestions[m].priority)
                                > priorityOrder(uniqueSuggestions[n].priority)
                        \/ /\ priorityOrder(uniqueSuggestions[m].priority)
                                = priorityOrder(uniqueSuggestions[n].priority)
                           /\ m <= n})
    IN  [r \in DOMAIN uniqueSuggestions |->
            uniqueSuggestions[CHOOSE n \in DOMAIN uniqueSuggestions : rank(n) = r]]

filterAndPrioritizeSuggestions(generated) ==
    LET kept == {i \in DOMAIN generated : i = findIndex(generated, generated[i])}
        uniqueSuggestions ==
            [n \in 1..Cardinality(kept) |->
                generated[CHOOSE i \in kept :
                            Cardinality({j \in kept : j <= i}) = n]]
    IN  sort(uniqueSuggestions)

(* The suggestions of the four passes, in pass order *)
newSuggestions(analyses, baselineList, configFiles, metricsHistory) ==
    LET latestMetrics == calculateLatestMetrics(metricsHistory)
        first == analyzePoorPerformance(0, analyses)
        second == identifyResourceOptimizations(Len(first), latestMetrics,
                                                configFiles)
        third == detectStabilityIssues(Len(first) + Len(second), baselineList,
                                       metricsHistory)
        fourth == applyAlgorithmicOptimizations(
                        Len(first) + Len(second) + Len(third), configFiles,
                        latestMetrics)
    IN  first \o second \o third \o fourth

(* Everything but the optimization engine *)
aside == <<config, activeSessions, backups, completedSessions, backupDir, files,
           calls, timers, validations, nextSessionId, nextBackupId, original,
           ensured, stats, isRunning, alive, escaped, work, analyzer, reader>>

generateSuggestions(analyses, baselineList, configFiles, metricsHistory) ==
    LET generated == newSuggestions(analyses, baselineList, configFiles,
                                    metricsHistory)
        filteredSuggestions == filterAndPrioritizeSuggestions(generated)
    IN  /\ nextSuggestionId <= MaxSuggestions
        /\ suggestionList' = suggestionList \o filteredSuggestions
        /\ returned' = [given |-> generated, result |-> filteredSuggestions]
        /\ nextSuggestionId' = nextSuggestionId + Len(generated)
        /\ UNCHANGED aside

OptimizerInit ==
    /\ config = FlowConfig
    /\ constructed
    /\ ensured = ensureBackupDirectory(TRUE)
    /\ analysisConfig = StartedAnalysisConfig
    /\ load = "calm"
    /\ deployment = "one"

OptimizerNext ==
    \E analyses \in AnalysesGiven, baselineList \in BaselinesGiven,
       metricsHistory \in HistoriesGiven :
        generateSuggestions(analyses, baselineList, <<"app.json">>, metricsHistory)

OptimizerSpec == OptimizerInit /\ [][OptimizerNext]_vars

(***************************************************************************)
(* A caller of the read accessors.  A session is an object: the array      *)
(* getActiveSessions returns is new, its elements are the objects the      *)
(* engine keeps, named here by their ids.  The caller reads once.          *)
(***************************************************************************)
(* Array.from(this.activeSessions.values()) *)
getActiveSessions ==
    LET ids == DOMAIN activeSessions
    IN  /\ held = <<>>
        /\ held' = [n \in 1..Cardinality(ids) |->
                        CHOOSE id \in ids : Cardinality({j \in ids : j <= id}) = n]
        /\ seen' = [id \in ids |-> activeSessions[id]]
        /\ UNCHANGED <<engine, isRunning, alive, escaped, work, analyzer, optimizer>>

(* What the object of a session holds now: the engine changes it in place  *)
(* while it is in one of its collections                                   *)
sessionObject(id) ==
    IF id \in DOMAIN activeSessions
    THEN activeSessions[id]
    ELSE IF \E i \in DOMAIN completedSessions : completedSessions[i].id = id
         THEN completedSessions[CHOOSE i \in DOMAIN completedSessions :
                                    completedSessions[i].id = id]
         ELSE seen[id]

ReaderInit ==
    /\ config = FlowConfig
    /\ constructed
    /\ ensured = ensureBackupDirectory(TRUE)
    /\ analysisConfig = StartedAnalysisConfig
    /\ load = "calm"
    /\ deployment = "one"

ReaderNext ==
    \/ Next
    \/ getActiveSessions

ReaderSpec == ReaderInit /\ [][ReaderNext]_vars

(***************************************************************************)
(* The capacity gate of processSuggestions, seen over one more session     *)
(* than elsewhere, while every file operation succeeds                     *)
(***************************************************************************)
MaxGateSessions == 3

GateInit ==
    /\ config = FlowConfig
    /\ constructed
    /\ ensured = ensureBackupDirectory(TRUE)
    /\ analysisConfig = StartedAnalysisConfig
    /\ load = "calm"
    /\ deployment = "one"

GateNext ==
    \/ \E c \in Calls, suggestions \in Batches, m \in MetricsSummaries :
            processSuggestionsUpTo(MaxGateSessions, c, suggestions, m)
    \/ \E c \in Calls : createBackup_read(c, TRUE)
    \/ \E c \in Calls : createBackup_write(c, TRUE)
    \/ \E c \in Calls : apply_read(c, TRUE)
    \/ \E c \in Calls : apply_write(c, TRUE)
    \/ \E t \in timers, draw \in Draws :
            validateAndFinalize(t, draw, "none", "ok")
    \/ \E v \in validations : rollbackChange_write(v)
    \/ Tick

GateSpec == GateInit /\ [][GateNext]_vars

(***************************************************************************)
(* Validation over more outcomes of the measurement: the post-change       *)
(* metrics as percentages of the pre-change ones, from a gain to a loss on *)
(* every count, while every file operation succeeds                        *)
(***************************************************************************)
Measurements ==
    {<<90, 86, 105>>, <<100, 100, 100>>, <<108, 112, 100>>, <<120, 100, 100>>,
     <<120, 120, 100>>, <<100, 120, 80>>, <<120, 120, 80>>, <<100, 100, 80>>}

ReasonInit ==
    /\ config = FlowConfig
    /\ constructed
    /\ ensured = ensureBackupDirectory(TRUE)
    /\ analysisConfig = StartedAnalysisConfig
    /\ load = "calm"
    /\ deployment = "one"

ReasonNext ==
    \/ \E c \in Calls, suggestions \in Batches, m \in MetricsSummaries :
            processSuggestions(c, suggestions, m)
    \/ \E c \in Calls : createBackup_read(c, TRUE)
    \/ \E c \in Calls : createBackup_write(c, TRUE)
    \/ \E c \in Calls : apply_read(c, TRUE)
    \/ \E c \in Calls : apply_write(c, TRUE)
    \/ \E t \in timers, draw \in Measurements :
            validateAndFinalize(t, draw, "none", "ok")
    \/ \E v \in validations : rollbackChange_write(v)
    \/ Tick

ReasonSpec == ReasonInit /\ [][ReasonNext]_vars

(***************************************************************************)
(* The change ledger of an analyzer with a window of two ticks, so that    *)
(* events grow older than twice the window: files change and time passes   *)
(***************************************************************************)
ShortWindow == 2
ChangeTypes == {"added", "modified", "removed"}
ConfigFiles == {"app.json", "db.json"}

LedgerInit ==
    /\ config = FlowConfig
    /\ constructed
    /\ ensured = ensureBackupDirectory(TRUE)
    /\ analysisConfig = [StartedAnalysisConfig EXCEPT !.analysisWindow = ShortWindow]
    /\ load = "calm"
    /\ deployment = "one"

LedgerNext ==
    \/ \E configFile \in ConfigFiles, changeType \in ChangeTypes :
            recordConfigChange(configFile, changeType)
    \/ elapse

LedgerSpec == LedgerInit /\ [][LedgerNext]_vars

(***************************************************************************)
(* An analyzer that asks for eight snapshots: a history can then hold      *)
(* three snapshots on each side of a change and still be too short         *)
(***************************************************************************)
PatientInit ==
    /\ config = FlowConfig
    /\ constructed
    /\ ensured = ensureBackupDirectory(TRUE)
    /\ analysisConfig = AnalysisConfig(8)
    /\ \E world \in Worlds : load = world[1] /\ deployment = world[2]

PatientSpec == PatientInit /\ [][AnalyzerNext]_vars

(***************************************************************************)
(* The analyzer under a load whose cpu usage steps from 10% to 20% after   *)
(* tick Window, under one configuration                                    *)
(***************************************************************************)
StepInit ==
    /\ config = FlowConfig
    /\ constructed
    /\ ensured = ensureBackupDirectory(TRUE)
    /\ analysisConfig = AnalysisConfig(3)
    /\ load = "step"
    /\ deployment = "one"

StepSpec == StepInit /\ [][AnalyzerNext]_vars

(***************************************************************************)
(* The analyzer under a rising load and the optimization tick of index.ts, *)
(* which hands the analyses and baselines of the analyzer to               *)
(* generateSuggestions.  Under one configuration the baseline map holds    *)
(* one key, so its values come in one order.                               *)
(***************************************************************************)
getAnalysisResults == analysisResults

getBaselines ==
    LET hashes == DOMAIN baselines
    IN  [n \in 1..Cardinality(hashes) |->
            baselines[CHOOSE h \in hashes :
                        Cardinality({g \in hashes : g = "H1" \/ h = "H2"}) = n]]

AdviceInit ==
    /\ config = FlowConfig
    /\ constructed
    /\ ensured = ensureBackupDirectory(TRUE)
    /\ analysisConfig = AnalysisConfig(3)
    /\ load = "surge"
    /\ deployment = "one"

(* The collector has dropped no snapshot yet *)
getMetricsHistory == series(0, now)

AdviceNext ==
    \/ \E changeType \in {"modified"} : recordConfigChange("app.json", changeType)
    \/ \E metricsHistory \in {getMetricsHistory} : analyzeMetrics(metricsHistory)
    \/ elapse
    \/ \E metricsHistory \in {getMetricsHistory} :
            generateSuggestions(getAnalysisResults, getBaselines, <<"app.json">>,
                                metricsHistory)

AdviceSpec == AdviceInit /\ [][AdviceNext]_vars

(***************************************************************************)
(* The auto-tuning tick of index.ts alone with the engine: what it takes   *)
(* from getAllSuggestions holds every suggestion once.  setInterval fires  *)
(* the callback again whether or not the last one has returned.            *)
(***************************************************************************)
Listed ==
    {suggestions \in Batches :
        \A i, j \in DOMAIN suggestions : suggestions[i] = suggestions[j] => i = j}

DispatchNext ==
    \/ \E c \in Calls, suggestions \in Listed, m \in MetricsSummaries :
            startPeriodicAutoTuning(c, suggestions, m, FALSE)
    \/ \E c \in Calls, ok \in BOOLEAN : createBackup_read(c, ok)
    \/ \E c \in Calls, ok \in BOOLEAN : createBackup_write(c, ok)
    \/ \E c \in Calls, ok \in BOOLEAN : apply_read(c, ok)
    \/ \E c \in Calls, ok \in BOOLEAN : apply_write(c, ok)
    \/ \E t \in timers, draw \in Draws, throwsAt \in ThrowPoints,
          io \in {"ok", "fails"} : validateAndFinalize(t, draw, throwsAt, io)
    \/ \E v \in validations : rollbackChange_write(v)
    \/ Tick

DispatchSpec == FlowInit /\ [][DispatchNext]_vars

(***************************************************************************)
(* Properties                                                              *)
(***************************************************************************)
completed(s) == {i \in DOMAIN completedSessions : completedSessions[i].id = s}
isActive(s) == s \in DOMAIN activeSessions
isTesting(s) == isActive(s) /\ activeSessions[s].status = TESTING
statusIs(s, status) ==
    \/ isActive(s) /\ activeSessions[s].status = status
    \/ \E i \in completed(s) : completedSessions[i].status = status
timersOf(s) == {t \in timers : t.sessionId = s}
validationsOf(s) == {v \in validations : v.sessionId = s}
applying(s) ==
    {c \in Calls :
        /\ calls[c].sessionId = s
        /\ \/ calls[c].pc \in {"apply_read", "apply_write"}
           \/ calls[c].pc = "createBackup_write"
                /\ isVirtual(Suggestion[calls[c].suggestion].configFile)}
indexed(backupId) == {i \in DOMAIN backups : backups[i].id = backupId}

(* C1: at most maxConcurrentChanges sessions have status TESTING, in every *)
(* reachable state, calls of processSuggestions that overlap included.     *)
SessionExclusivity ==
    Cardinality({s \in DOMAIN activeSessions : isTesting(s)})
        <= config.maxConcurrentChanges

(* C2: createBackup has read the file, stored the backup on disk and added *)
(* it to the index before applyConfigurationChange writes the file, only   *)
(* an apply or a restore writes a file, and a createBackup that fails      *)
(* leaves the file unwritten, no session active and no timer set.          *)
ReadsOriginal(c) ==
    calls[c].pc = "createBackup_read" /\ calls'[c].pc = "createBackup_write"
        => /\ calls'[c].creating.originalContent
                = files[calls[c].creating.configFile].content
           /\ files' = files
CreateBackupReturns(c) ==
    calls[c].backup = NoBackup /\ calls'[c].backup # NoBackup
        => /\ calls[c].pc = "createBackup_write"
           /\ calls'[c].backup.originalContent # NoContent
           /\ indexed(calls'[c].backup.id) = {}
           /\ \E i \in DOMAIN backups' : backups'[i] = calls'[c].backup
           /\ calls'[c].backup.id \in backupDir'
           /\ files' = files
ApplyWrites(c) ==
    /\ calls[c].pc = "apply_write"
    /\ calls'[c].pc # "apply_write"
    /\ calls[c].backup # NoBackup
    /\ calls[c].backup.configFile = Suggestion[calls[c].suggestion].configFile
CreateBackupFails(c) ==
    /\ calls[c].pc \in {"createBackup_read", "createBackup_write"}
    /\ calls'[c].sessionId # calls[c].sessionId
    /\ \A i \in DOMAIN backups' : backups'[i].id # calls[c].creating.id
BackupPrecedesMutation ==
    [][/\ \A c \in Calls :
            /\ ReadsOriginal(c)
            /\ CreateBackupReturns(c)
            /\ CreateBackupFails(c) =>
                    /\ files' = files
                    /\ calls[c].sessionId \notin DOMAIN activeSessions'
                    /\ \A t \in timers' : t.sessionId # calls[c].sessionId
       /\ files' # files =>
            \/ \E c \in Calls : ApplyWrites(c)
            \/ \E v \in validations : v \notin validations']_vars

BackupThenWrite ==
    \E c \in Calls :
        /\ calls[c].backup # NoBackup
        /\ calls[c].backup.originalContent = Content("raw", 0)
        /\ files["app.json"].content = Content("canon", 1)

(* C3: right after rollbackChange returns for a session that is rolled     *)
(* back, the target file holds the text that the session's createBackup    *)
(* read before the file was changed.  A restoring write that itself fails  *)
(* is left out: that is the rollback failure the error handling covers.    *)
RollbackReturns(s) ==
    \/ /\ timersOf(s) # {}
       /\ \A t \in timers' : t.sessionId # s
       /\ \A v \in validations' : v.sessionId # s
       /\ isTesting(s)
       /\ \/ s \in DOMAIN activeSessions' /\ activeSessions'[s].status = ROLLED_BACK
          \/ \E i \in DOMAIN completedSessions' :
                /\ completedSessions'[i].id = s
                /\ completedSessions'[i].status = ROLLED_BACK
    \/ \E v \in validationsOf(s) : v \notin validations' /\ v.io = "ok"
RollbackFidelity ==
    [][\A s \in DOMAIN activeSessions :
            RollbackReturns(s) =>
                files'[activeSessions[s].configFile].content = original[s]]_vars

(* C4: every session that is not finalized has exactly one backup in the   *)
(* index, whatever cleanupOldBackups has done.                             *)
BackupOutlivesSession ==
    /\ \A t \in timers :
            isTesting(t.sessionId) => Cardinality(indexed(t.backupId)) = 1
    /\ \A c \in Calls :
            calls[c].pc \in {"apply_read", "apply_write"} /\ isTesting(calls[c].sessionId)
                => Cardinality(indexed(calls[c].backup.id)) = 1

(* C5: a session, a backup or a file write comes only from a suggestion    *)
(* whose risk rank is at most the threshold's, whose confidence is at      *)
(* least 0.7 and whose file exists and is writable.                        *)
rank(level) == IF level = "low" THEN 1 ELSE IF level = "medium" THEN 2 ELSE 3
passesFilter(id) ==
    /\ rank(Suggestion[id].riskLevel) <= rank(config.riskThreshold)
    /\ Suggestion[id].confidence >= 70
    /\ files[Suggestion[id].configFile].exists
    /\ files[Suggestion[id].configFile].writable
EligibilityFilter ==
    /\ \A s \in DOMAIN activeSessions : passesFilter(activeSessions[s].suggestionId)
    /\ \A i \in DOMAIN completedSessions : passesFilter(completedSessions[i].suggestionId)
    /\ \A i \in DOMAIN backups : passesFilter(backups[i].reason)
    /\ \A c \in Calls : calls[c].pc # "idle" => passesFilter(calls[c].suggestion)
    /\ \A f \in Files :
            files[f].content # FileSystem[f].content
                => \E id \in SuggestionIds :
                        /\ passesFilter(id)
                        /\ Suggestion[id].configFile = f
                        /\ files[f].content.val = Suggestion[id].suggestedValue

EligibleApplied ==
    /\ \E s \in DOMAIN activeSessions : activeSessions[s].suggestionId = 1
    /\ \E i \in DOMAIN backups : backups[i].reason = 1
    /\ files["app.json"].content.val = 1

(* C6: every session in the completed list is SUCCESSFUL or ROLLED_BACK.   *)
KeepRollbackPartition ==
    \A i \in DOMAIN completedSessions :
        completedSessions[i].status \in {SUCCESSFUL, ROLLED_BACK}

BothOutcomes ==
    /\ \E i \in DOMAIN completedSessions : completedSessions[i].status = SUCCESSFUL
    /\ \E i \in DOMAIN completedSessions : completedSessions[i].status = ROLLED_BACK

(* C7: once validateAndFinalize has finished for a session, by whichever   *)
(* path, the session is out of the active set and once in the completed    *)
(* list; so a session in the active set whose validation is not under way  *)
(* is TESTING, and no session is in both.                                  *)
FinalizationMovesSession ==
    /\ \A s \in DOMAIN activeSessions :
            validationsOf(s) = {} => activeSessions[s].status = TESTING
    /\ \A s \in SessionIds :
            /\ Cardinality(completed(s)) <= 1
            /\ ~(isActive(s) /\ completed(s) # {})

(* C8: a session in TESTING has exactly one validation timer once its      *)
(* apply step is over and none before, a timer fires only when the test    *)
(* duration is over and never twice for a session, and every session that  *)
(* enters TESTING reaches SUCCESSFUL or ROLLED_BACK.                       *)
OneTimer(s) ==
    /\ Cardinality(timersOf(s)) <= 1
    /\ timersOf(s) # {} => ~(\E c \in Calls : calls[c].sessionId = s) /\ isTesting(s)
    /\ isTesting(s) /\ ~(\E c \in Calls : calls[c].sessionId = s) => timersOf(s) # {}
FiresWhenDue(s) ==
    /\ timersOf(s) # {} /\ (\A t \in timers' : t.sessionId # s)
            => \A t \in timersOf(s) : t.remaining = 0
    /\ timersOf(s) = {} /\ (\E t \in timers' : t.sessionId = s)
            => /\ applying(s) # {}
               /\ \A t \in timers' : t.sessionId = s => t.remaining = config.testDuration
SessionTerminates ==
    /\ [](\A s \in SessionIds : OneTimer(s))
    /\ [][\A s \in SessionIds : FiresWhenDue(s)]_vars
    /\ \A s \in SessionIds :
            isTesting(s) ~> (statusIs(s, SUCCESSFUL) \/ statusIs(s, ROLLED_BACK))

TestedAndFinalized ==
    /\ completedSessions # <<>>
    /\ timers = {}

(* C9: when the read, the parse or the write of applyConfigurationChange   *)
(* fails, the session is not in the active set afterwards and has no       *)
(* validation timer; processSuggestions goes on with its next suggestion.  *)
ApplyFails(c) ==
    /\ calls[c].pc = "apply_read"
    /\ calls'[c].pc \notin {"apply_read", "apply_write"}
    /\ endsWithJson(Suggestion[calls[c].suggestion].configFile)
    /\ parses(files[Suggestion[calls[c].suggestion].configFile].content)
    /\ Suggestion[calls[c].suggestion].parameter # "unknown"
ApplyFailureDiscardsSession ==
    [][\A c \in Calls :
            ApplyFails(c) =>
                /\ calls[c].sessionId \notin DOMAIN activeSessions'
                /\ \A t \in timers' : t.sessionId # calls[c].sessionId
                /\ calls[c].toProcess # <<>>
                        => calls'[c].suggestion = Head(calls[c].toProcess)]_vars

(* C10: a session whose validation raised is ROLLED_BACK with the reason   *)
(* "Validation error", and when its rollbackChange returns the target file *)
(* holds the backed-up text (a restoring write that itself fails is left   *)
(* out, as for C3).                                                        *)
raised(session) == session.rollbackReason = "Validation error"
ValidationFailureForcesRollback ==
    /\ [](\A s \in DOMAIN activeSessions :
            raised(activeSessions[s]) => activeSessions[s].status = ROLLED_BACK)
    /\ [][\A s \in DOMAIN activeSessions :
            /\ RollbackReturns(s)
            /\ s \in DOMAIN activeSessions'
            /\ raised(activeSessions'[s])
            => files'[activeSessions[s].configFile].content = original[s]]_vars

(* C11: when the restoring write of rollbackChange fails, the session ends *)
(* ROLLED_BACK with an end time, is in the completed list and no longer in *)
(* the active set, so that it holds no capacity slot against later calls.  *)
RestoreFails(v) ==
    /\ v \in validations
    /\ v \notin validations'
    /\ v.io = "fails" \/ ~files[v.configFile].writable
RollbackFailureContained ==
    [][\A v \in validations :
            RestoreFails(v) =>
                /\ files' = files
                /\ v.sessionId \notin DOMAIN activeSessions'
                /\ \E i \in DOMAIN completedSessions' :
                        /\ completedSessions'[i].id = v.sessionId
                        /\ completedSessions'[i].status = ROLLED_BACK
                        /\ completedSessions'[i].endTime]_vars

(* C12: validatePerformanceChange recommends keep iff the weighted         *)
(* improvement 0.4*cpu + 0.4*memory + 20*stability is above 2 with the     *)
(* cpu after below 90 and the memory after below 95; a validated session   *)
(* is SUCCESSFUL with that improvement recorded exactly when the           *)
(* recommendation is keep, and ROLLED_BACK otherwise.  Improvements are in *)
(* tenths, stability in hundredths.                                        *)
MetricsSamples ==
    {Metrics(50, 60, 90), Metrics(40, 60, 90), Metrics(48, 60, 90),
     Metrics(99, 60, 90), Metrics(92, 60, 90), Metrics(60, 99, 90),
     Metrics(50, 96, 90), Metrics(50, 60, 100)}
overallImprovement(before, after) ==
    4 * (before.avgCpu - after.avgCpu) + 4 * (before.avgMemory - after.avgMemory)
        + 2 * (after.stability - before.stability)
keep(before, after) ==
    /\ overallImprovement(before, after) > 20
    /\ after.avgCpu < 90
    /\ after.avgMemory < 95
validated(session) == session.postChangeMetrics # NoMetrics
decided(session) ==
    IF keep(session.preChangeMetrics, session.postChangeMetrics)
    THEN /\ session.status = SUCCESSFUL
         /\ session.improvementMeasured
                = overallImprovement(session.preChangeMetrics, session.postChangeMetrics)
    ELSE session.status = ROLLED_BACK
KeepDecision ==
    /\ \A before \in MetricsSamples, after \in MetricsSamples :
            LET validation == validatePerformanceChange(before, after)
            IN  /\ validation.recommendation \in {"keep", "rollback"}
                /\ validation.recommendation = "keep" <=> keep(before, after)
                /\ validation.improvementPercent = overallImprovement(before, after)
    /\ validatePerformanceChange(Metrics(50, 60, 90), Metrics(40, 60, 90))
            .improvementPercent = 40
    /\ validatePerformanceChange(Metrics(50, 60, 90), Metrics(40, 60, 90))
            .recommendation = "keep"
    /\ \A i \in DOMAIN completedSessions :
            validated(completedSessions[i]) /\ decided(completedSessions[i])
    /\ \A s \in DOMAIN activeSessions :
            validated(activeSessions[s]) => decided(activeSessions[s])

KeptAndReverted ==
    /\ \E i \in DOMAIN completedSessions :
            /\ completedSessions[i].status = SUCCESSFUL
            /\ completedSessions[i].postChangeMetrics = Metrics(45, 43, 84)
            /\ completedSessions[i].improvementMeasured = 56
    /\ \E i \in DOMAIN completedSessions :
            /\ completedSessions[i].status = ROLLED_BACK
            /\ completedSessions[i].postChangeMetrics = Metrics(54, 56, 80)

(* C13: the outcome of a validation is a function of the session's         *)
(* pre-change metrics and of the snapshots collected after the change.  The *)
(* engine is handed no snapshot after the change, so two validated sessions *)
(* with the same pre-change metrics end in the same status.                 *)
ValidationDeterministic ==
    \A i, j \in DOMAIN completedSessions :
        completedSessions[i].preChangeMetrics = completedSessions[j].preChangeMetrics
            => completedSessions[i].status = completedSessions[j].status

(* C14: while approvalRequired is set no session is TESTING and no file   *)
(* has been changed; the engine has no operation that delivers an          *)
(* approval.                                                               *)
ApprovalGate ==
    config.approvalRequired =>
        /\ \A s \in DOMAIN activeSessions : ~isTesting(s)
        /\ files = FileSystem

(* C15: a suggestion for the file "system" or "algorithmic_optimization"    *)
(* that meets the risk and the confidence conditions passes the filter,     *)
(* whether or not a file of that name exists.                               *)
VirtualAlwaysEligible ==
    \A id \in SuggestionIds :
        /\ isVirtual(Suggestion[id].configFile)
        /\ rank(Suggestion[id].riskLevel) <= rank(config.riskThreshold)
        /\ Suggestion[id].confidence >= 70
        => isEligible(id)

(* C16: no two sessions that are TESTING at the same time have the same     *)
(* configFile, whatever maxConcurrentChanges is.                            *)
SingleWriterPerFile ==
    \A s1, s2 \in DOMAIN activeSessions :
        s1 # s2 /\ isTesting(s1) /\ isTesting(s2)
            => activeSessions[s1].configFile # activeSessions[s2].configFile

(* C17: getTuningStats returns the number of completed sessions, the       *)
(* numbers of SUCCESSFUL and of ROLLED_BACK ones, which add up to the      *)
(* total, successRate = successful/total*100 and avgImprovement = the mean *)
(* of improvementMeasured over the SUCCESSFUL ones, both 0 when there is   *)
(* nothing to divide by; a call changes nothing but what it returns.       *)
withStatus(status) ==
    {i \in DOMAIN completedSessions : completedSessions[i].status = status}
RECURSIVE improvementOver(_)
improvementOver(indices) ==
    IF indices = {} THEN 0
    ELSE LET i == CHOOSE j \in indices : TRUE
         IN  completedSessions[i].improvementMeasured
                + improvementOver(indices \ {i})
equals(ratio, num, den) ==
    /\ ratio.den > 0
    /\ IF den = 0 THEN ratio.num = 0 ELSE ratio.num * den = num * ratio.den
StatsAreExact ==
    /\ tuningStats.totalSessions = Len(completedSessions)
    /\ tuningStats.successful = Cardinality(withStatus(SUCCESSFUL))
    /\ tuningStats.rolledBack = Cardinality(withStatus(ROLLED_BACK))
    /\ tuningStats.successful + tuningStats.rolledBack = tuningStats.totalSessions
    /\ equals(tuningStats.successRate,
              100 * Cardinality(withStatus(SUCCESSFUL)), Len(completedSessions))
    /\ equals(tuningStats.avgImprovement,
              improvementOver(withStatus(SUCCESSFUL)),
              Cardinality(withStatus(SUCCESSFUL)))
TuningStatsExact ==
    /\ []StatsAreExact
    /\ [][stats' # stats =>
            /\ stats' = tuningStats
            /\ UNCHANGED <<config, activeSessions, backups, completedSessions,
                           backupDir, files, calls, timers, validations>>]_vars

StatsOfBothOutcomes ==
    /\ stats # NoStats
    /\ stats.totalSessions = 2
    /\ stats.successful = 1
    /\ stats.rolledBack = 1
    /\ stats.successRate = Ratio(100, 2)
    /\ stats.avgImprovement = Ratio(56, 1)

(* C18: once ensureBackupDirectory has failed, no processSuggestions call  *)
(* registers a session or has a file written.                              *)
BackupStorageFailureFatal ==
    ensured = "failed" =>
        /\ activeSessions = <<>>
        /\ completedSessions = <<>>
        /\ files = FileSystem

(* C19: no exception leaves the callback of a periodic tick.               *)
TickFailuresContained ==
    ~escaped

(* C20: the shutdown changes no session and starts no rollback, what it    *)
(* leaves in a file is the text the file had or the text of a write that   *)
(* was in flight, and after it no session, no file and no periodic work    *)
(* changes any more.                                                       *)
ShutdownAbandonsSessions ==
    [][/\ isRunning /\ ~isRunning' =>
            /\ activeSessions' = activeSessions
            /\ completedSessions' = completedSessions
            /\ validations' \subseteq validations
            /\ \A f \in Files :
                    files'[f].content # files[f].content
                        => files'[f].content \in inFlight(f)
       /\ ~isRunning =>
            UNCHANGED <<activeSessions, completedSessions, files, calls,
                        timers, validations, work>>]_vars

AbandonedWhileTesting ==
    /\ ~isRunning
    /\ \E s \in DOMAIN activeSessions :
            /\ isTesting(s)
            /\ files[activeSessions[s].configFile].content
                    = Content("canon", activeSessions[s].newValue)

(***************************************************************************)
(* ImpactAnalyzer                                                          *)
(***************************************************************************)
(* The snapshots on either side of a change that the window admits *)
earlier(change, metricsHistory) ==
    {i \in DOMAIN metricsHistory :
        /\ metricsHistory[i].timestamp < change.timestamp
        /\ change.timestamp - metricsHistory[i].timestamp < analysisConfig.analysisWindow}
later(change, metricsHistory) ==
    {i \in DOMAIN metricsHistory :
        /\ metricsHistory[i].timestamp > change.timestamp
        /\ metricsHistory[i].timestamp - change.timestamp < analysisConfig.analysisWindow}
enough(change, metricsHistory) ==
    /\ Cardinality(earlier(change, metricsHistory)) >= 3
    /\ Cardinality(later(change, metricsHistory)) >= 3

(* The changes that a call of analyzeMetrics at this time looks at *)
looksAt == {i \in DOMAIN changeHistory :
                changeHistory[i].timestamp > now - analysisConfig.analysisWindow}

(* C21: an ImpactAnalysis is made for a change only from a history with at *)
(* least 3 snapshots strictly before the change and at least 3 strictly    *)
(* after it, each less than analysisWindow away from it; a call of         *)
(* analyzeMetrics appends one analysis for each change it looks at that    *)
(* has them, and nothing for the others.                                   *)
ImpactNeedsBothSides ==
    /\ [](\A i \in DOMAIN analysisResults :
            /\ analysisResults[i].changeId = runs[i].change.id
            /\ enough(runs[i].change, runs[i].metricsHistory))
    /\ [][\A metricsHistory \in Histories :
            analyzeMetrics(metricsHistory)
                /\ Len(metricsHistory) >= analysisConfig.minSampleSize
            => /\ Len(analysisResults') - Len(analysisResults)
                    = Cardinality({i \in looksAt :
                                    enough(changeHistory[i], metricsHistory)})
               /\ SubSeq(analysisResults', 1, Len(analysisResults)) = analysisResults]_vars

(* An analysis made from a history that also holds a snapshot stamped at   *)
(* the change and one exactly analysisWindow before it                     *)
BothSidesWithBoundaries ==
    \E i \in DOMAIN analysisResults :
        LET change == runs[i].change
            metricsHistory == runs[i].metricsHistory
        IN  /\ \E j \in DOMAIN metricsHistory :
                    metricsHistory[j].timestamp = change.timestamp
            /\ \E j \in DOMAIN metricsHistory :
                    metricsHistory[j].timestamp
                        = change.timestamp - analysisConfig.analysisWindow
            /\ enough(change, metricsHistory)

(* x is a / b to the second decimal *)
isQuotient(x, a, b) == b * x <= a /\ a < b * (x + 1)

(* The baseline is the summary of these snapshots and of nothing else *)
summarises(baseline, snapshots) ==
    LET cpu == {snapshots[i].cpu : i \in DOMAIN snapshots}
        memory == {snapshots[i].memory : i \in DOMAIN snapshots}
    IN  /\ baseline.metrics.sampleCount = Len(snapshots)
        /\ isQuotient(baseline.metrics.avgCpu, sum(cpuOf(snapshots)) * Scale,
                      Len(snapshots))
        /\ isQuotient(baseline.metrics.avgMemory, sum(memoryOf(snapshots)) * Scale,
                      Len(snapshots))
        /\ baseline.metrics.maxCpu \in cpu
        /\ \A x \in cpu : x <= baseline.metrics.maxCpu
        /\ baseline.metrics.maxMemory \in memory
        /\ \A x \in memory : x <= baseline.metrics.maxMemory
        /\ isQuotient(baseline.stability,
                      calculateStability(cpuOf(snapshots))
                        + calculateStability(memoryOf(snapshots)), 2)

(* The snapshots of a history that carry a hash *)
sharing(configHash, metricsHistory) ==
    {i \in DOMAIN metricsHistory : metricsHistory[i].configHash = configHash}

(* C22: a baseline exists for a config hash only if at least minSampleSize *)
(* snapshots of one analysed history share the hash, and it is the summary *)
(* of that hash's snapshots in the last analysed history that had that     *)
(* many, and of nothing else; a call of analyzeMetrics replaces the        *)
(* baselines of the hashes with that many snapshots and leaves the others. *)
BaselineFromLatestGroup ==
    /\ [](\A configHash \in DOMAIN baselines :
            /\ configHash \in DOMAIN grouped
            /\ Len(grouped[configHash]) >= analysisConfig.minSampleSize
            /\ \A i \in DOMAIN grouped[configHash] :
                    grouped[configHash][i].configHash = configHash
            /\ baselines[configHash].configHash = configHash
            /\ summarises(baselines[configHash], grouped[configHash]))
    /\ [][\A metricsHistory \in Histories :
            analyzeMetrics(metricsHistory)
                /\ Len(metricsHistory) >= analysisConfig.minSampleSize
            => \A configHash \in {"H1", "H2"} :
                IF Cardinality(sharing(configHash, metricsHistory))
                        >= analysisConfig.minSampleSize
                THEN /\ configHash \in DOMAIN baselines'
                     /\ grouped'[configHash]
                            = [i \in 1..Cardinality(sharing(configHash, metricsHistory)) |->
                                 metricsHistory[CHOOSE j \in sharing(configHash, metricsHistory) :
                                    Cardinality({k \in sharing(configHash, metricsHistory) : k <= j}) = i]]
                ELSE IF configHash \in DOMAIN baselines
                     THEN /\ configHash \in DOMAIN baselines'
                          /\ baselines'[configHash] = baselines[configHash]
                     ELSE configHash \notin DOMAIN baselines']_vars

(* The baseline of H1 stands from an earlier analysis, and a later         *)
(* analysis, which had too few snapshots of H1, made the one of H2         *)
BaselineKeptAndMade ==
    /\ DOMAIN baselines = {"H1", "H2"}
    /\ baselines["H1"].timestamp < baselines["H2"].timestamp

(* -0.4 * cpuDelta / 100 - 0.3 * memoryDelta / 100 + 0.3 * stabilityDelta *)
weighted(cpuDelta, memoryDelta, stabilityDelta) ==
    quotient(stabilityDelta * 3, 10) - quotient(cpuDelta * 4, 1000)
        - quotient(memoryDelta * 3, 1000)

clamp(low, high, x) == IF x < low THEN low ELSE IF x > high THEN high ELSE x

DeltaSamples == {-29000, 0, 5000, 40000}
StabilitySamples == {-100, 0, 50}

(* C23: calculateImpactScore returns the weighted sum of the deltas        *)
(* clamped to [-1, 1], for all deltas; every recorded analysis has an      *)
(* impactScore in [-1, 1] and the confidence (min(1, min(|before|,         *)
(* |after|) / 10) + min(1, |impactScore| * 10)) / 2, which lies in [0, 1]. *)
ScoreAndConfidenceBounded ==
    /\ \A cpuDelta \in DeltaSamples, memoryDelta \in DeltaSamples,
          stabilityDelta \in StabilitySamples :
            /\ calculateImpactScore(cpuDelta, memoryDelta, stabilityDelta)
                    = clamp(-Scale, Scale,
                            weighted(cpuDelta, memoryDelta, stabilityDelta))
            /\ calculateImpactScore(cpuDelta, memoryDelta, stabilityDelta)
                    \in (-Scale)..Scale
    /\ \A i \in DOMAIN analysisResults :
            LET analysis == analysisResults[i]
                samples == Min(Cardinality(earlier(runs[i].change, runs[i].metricsHistory)),
                               Cardinality(later(runs[i].change, runs[i].metricsHistory)))
            IN  /\ analysis.impactScore
                        = clamp(-Scale, Scale,
                                weighted(analysis.metrics.cpuDelta,
                                         analysis.metrics.memoryDelta,
                                         analysis.metrics.stabilityDelta))
                /\ analysis.impactScore \in (-Scale)..Scale
                /\ isQuotient(analysis.confidence,
                              clamp(0, Scale, quotient(samples * Scale, 10))
                                + clamp(0, Scale, abs(analysis.impactScore) * 10), 2)
                /\ analysis.confidence \in 0..Scale

(* An analysis whose weighted sum lies below -1 and whose score is -1 *)
ScoreClamped ==
    \E i \in DOMAIN analysisResults :
        /\ weighted(analysisResults[i].metrics.cpuDelta,
                    analysisResults[i].metrics.memoryDelta,
                    analysisResults[i].metrics.stabilityDelta) < -Scale
        /\ analysisResults[i].impactScore = -Scale

(* Series of one to three whole percentages *)
Percentages == {0, 10, 300}
SeriesSamples == UNION {[1..n -> Percentages] : n \in 1..3}

isConstant(values) == \A i, j \in DOMAIN values : values[i] = values[j]

samePair(a, b) == a.configFile = b.configFile /\ a.parameter = b.parameter

rankOf(suggestion) ==
    IF suggestion.priority = "critical" THEN 4
    ELSE IF suggestion.priority = "high" THEN 3
    ELSE IF suggestion.priority = "medium" THEN 2
    ELSE 1

(* The suggestions of a list that no earlier one of the list shares its    *)
(* pair with                                                               *)
firstOfPair(list) ==
    {list[i] : i \in {k \in DOMAIN list :
                        \A j \in 1..(k - 1) : ~samePair(list[j], list[k])}}

(* C26: the list one generateSuggestions call returns holds no two         *)
(* suggestions with the same (configFile, parameter); it holds, for each   *)
(* pair generated, the first suggestion generated with it in pass order    *)
(* and no other; and it is ordered by priority rank descending and,        *)
(* within one priority, by confidence descending.                          *)
ReturnedFilteredAndPrioritized ==
    LET result == returned.result
    IN  /\ \A i, j \in DOMAIN result :
                samePair(result[i], result[j]) => i = j
        /\ {result[i] : i \in DOMAIN result} = firstOfPair(returned.given)
        /\ \A i, j \in DOMAIN result :
                i < j => \/ rankOf(result[i]) > rankOf(result[j])
                         \/ /\ rankOf(result[i]) = rankOf(result[j])
                            /\ result[i].confidence >= result[j].confidence

(* A call generated two suggestions for one pair, the later one with the   *)
(* higher confidence, and returned the first; and it returned a medium     *)
(* suggestion generated later ahead of one generated earlier, and a high   *)
(* one generated later ahead of one generated earlier                      *)
DuplicateDroppedAndReordered ==
    LET given == returned.given
        result == returned.result
        place(list, id) == CHOOSE i \in DOMAIN list : list[i].id = id
        swapped(priority) ==
            \E i, j \in DOMAIN result :
                /\ i < j
                /\ result[i].priority = priority
                /\ result[j].priority = priority
                /\ place(given, result[i].id) > place(given, result[j].id)
    IN  /\ \E i, j \in DOMAIN given :
                /\ i < j
                /\ samePair(given[i], given[j])
                /\ given[i].confidence < given[j].confidence
                /\ \E k \in DOMAIN result : result[k] = given[i]
        /\ swapped("medium")
        /\ swapped("high")

(* C27: after any sequence of generateSuggestions calls the running list   *)
(* of the engine holds no two suggestions with the same (configFile,       *)
(* parameter).                                                             *)
RunningListDeduplicated ==
    \A i, j \in DOMAIN suggestionList :
        samePair(suggestionList[i], suggestionList[j]) => i = j

(* C28: a session a caller got from getActiveSessions still shows what it  *)
(* showed when the caller got it, whatever the engine has done since.      *)
HeldSessionsAreSnapshots ==
    \A n \in DOMAIN held : sessionObject(held[n]) = seen[held[n]]

(* The suggestions a call has taken to apply, in order *)
admitted(c) ==
    IF calls[c].pc = "idle" THEN <<>>
    ELSE <<calls[c].suggestion>> \o calls[c].toProcess

(* C29: a processSuggestions call made with A sessions in the active set   *)
(* and the eligible suggestions e1..eE takes to apply exactly the first    *)
(* min(E, max(0, maxConcurrentChanges - A)) of them, in input order; with  *)
(* A >= maxConcurrentChanges it takes none.                                *)
CapacityGate ==
    [][\A c \in Calls, suggestions \in Batches, m \in MetricsSummaries :
        processSuggestionsUpTo(MaxGateSessions, c, suggestions, m)
        => LET eligible == SelectSeq(suggestions, isEligible)
               A == Cardinality(DOMAIN activeSessions)
               room == Max(0, config.maxConcurrentChanges - A)
           IN  admitted(c)' = SubSeq(eligible, 1, Min(Len(eligible), room))]_vars

(* What the engine's collections show of the session with an id *)
shown(id) ==
    (IF id \in DOMAIN activeSessions THEN {activeSessions[id]} ELSE {})
        \cup {completedSessions[i] :
                i \in {k \in DOMAIN completedSessions : completedSessions[k].id = id}}

(* The step is the timer callback of the session or the completion of its  *)
(* restoring write                                                         *)
validating(id) ==
    \/ \E t \in timers, draw \in Draws, throwsAt \in ThrowPoints,
          io \in {"ok", "fails"} :
            t.sessionId = id /\ validateAndFinalize(t, draw, throwsAt, io)
    \/ \E v \in validations : v.sessionId = id /\ rollbackChange_write(v)

(* C30: the status of a session changes only in a step of its validation,  *)
(* and only from TESTING to SUCCESSFUL or from TESTING to ROLLED_BACK; a   *)
(* session that is SUCCESSFUL or ROLLED_BACK changes in no field.          *)
StatusTransitions ==
    [][\A id \in 1..(nextSessionId - 1) :
        \A before \in shown(id) : \A after \in shown(id)' :
            /\ before.status # after.status
                => /\ before.status = TESTING
                   /\ after.status \in {SUCCESSFUL, ROLLED_BACK}
                   /\ validating(id)
            /\ before.status \in {SUCCESSFUL, ROLLED_BACK} => after = before]_vars

(* One session was kept and is among the completed ones; another is rolled *)
(* back and its restoring write is still in flight                         *)
KeptAndRollingBack ==
    /\ \E i \in DOMAIN completedSessions :
            completedSessions[i].status = SUCCESSFUL
    /\ \E v \in validations :
            /\ v.sessionId \in DOMAIN activeSessions
            /\ activeSessions[v.sessionId].status = ROLLED_BACK

(* The issues that the metrics of a session trigger, in the order CPU,     *)
(* memory, stability                                                       *)
triggered(session) ==
    LET pre == session.preChangeMetrics
        post == session.postChangeMetrics
        pick(hit, text) == IF hit THEN <<text>> ELSE <<>>
    IN  pick(10 * post.avgCpu > 11 * pre.avgCpu,
             "CPU usage increased significantly")
        \o pick(10 * post.avgMemory > 11 * pre.avgMemory,
                "Memory usage increased significantly")
        \o pick(10 * post.stability < 9 * pre.stability,
                "System stability decreased")

(* The sessions the engine holds *)
sessionsKept ==
    {activeSessions[id] : id \in DOMAIN activeSessions}
        \cup {completedSessions[i] : i \in DOMAIN completedSessions}

young(change) == now - change.timestamp < 2 * analysisConfig.analysisWindow

(* The ledger after the call holds these events of the ledger before it,   *)
(* in their order, and then the new one                                    *)
keptInOrder(old, new) ==
    LET survivors == {i \in DOMAIN old : young(old[i])}
    IN  /\ Len(new) = Cardinality(survivors) + 1
        /\ \A n \in 1..Cardinality(survivors) :
                new[n] = old[CHOOSE i \in survivors :
                                Cardinality({j \in survivors : j <= i}) = n]

ShortHistoryIgnored ==
    [][\A metricsHistory \in Histories :
        Len(metricsHistory) < analysisConfig.minSampleSize
            /\ analyzeMetrics(metricsHistory)
        => UNCHANGED <<baselines, analysisResults, changeHistory>>]_vars

(* A history too short to be analysed that holds enough snapshots on both  *)
(* sides of a recent change for an impact analysis                         *)
ShortButTelling ==
    \E metricsHistory \in Histories :
        /\ Len(metricsHistory) < analysisConfig.minSampleSize
        /\ analyzeRecentChanges(metricsHistory) # <<>>

(* The kind of text that a score calls for *)
kindFor(impactScore) ==
    IF impactScore > 30 THEN "keep"
    ELSE IF impactScore < -30 THEN "revert"
    ELSE IF -10 < impactScore /\ impactScore < 10 THEN "neutral"
    ELSE "monitor"

(* The kind of a recommendation text *)
kindOf(recommendation) ==
    CASE recommendation.finding = "Positive impact detected" -> "keep"
      [] recommendation.finding = "Negative impact detected" -> "revert"
      [] recommendation.finding = "Minimal impact detected" -> "neutral"
      [] recommendation.finding = "Minor impact detected" -> "monitor"
      [] OTHER -> "none"

(* C34: for every impactScore in [-1, 1] generateRecommendation returns    *)
(* the keep text iff the score is above 0.3, the revert text iff it is     *)
(* below -0.3, the neutral text iff its size is below 0.1 and the monitor  *)
(* text otherwise, naming the file; every recorded analysis carries the    *)
(* text of its score; and a step that records analyses writes no file and  *)
(* leaves the change ledger and the configuration of the analyzer alone.   *)
RecommendationThresholds ==
    /\ [](/\ \A impactScore \in (-Scale)..Scale :
                /\ kindOf(generateRecommendation(impactScore, "app.json"))
                        = kindFor(impactScore)
                /\ generateRecommendation(impactScore, "app.json").configFile
                        = "app.json"
           /\ \A i \in DOMAIN analysisResults :
                kindOf(analysisResults[i].recommendation)
                    = kindFor(analysisResults[i].impactScore))
    /\ [][analysisResults' # analysisResults
            => UNCHANGED <<files, changeHistory, analysisConfig>>]_vars

(* A recorded analysis with a score below -0.3 and the revert text *)
RevertRecommended ==
    \E i \in DOMAIN analysisResults :
        /\ analysisResults[i].impactScore < -30
        /\ kindOf(analysisResults[i].recommendation) = "revert"

(* The snapshots of a history with these indices all show this cpu usage *)
allAt(metricsHistory, indices, cpu) ==
    \A i \in indices : metricsHistory[i].cpu = cpu

(* C35: an analysis made from 3 snapshots before the change at 10% cpu     *)
(* and 3 after it at 20% cpu, with the same memory usage on both sides,    *)
(* has cpuDelta 10, a negative impactScore, and a recommendation of the    *)
(* monitor or the revert kind.                                             *)
ScenarioB ==
    \A i \in DOMAIN analysisResults :
        LET change == runs[i].change
            metricsHistory == runs[i].metricsHistory
            before == earlier(change, metricsHistory)
            after == later(change, metricsHistory)
        IN  /\ Cardinality(before) = 3
            /\ Cardinality(after) = 3
            /\ allAt(metricsHistory, before, 10)
            /\ allAt(metricsHistory, after, 20)
            /\ \A j, k \in before \cup after :
                    metricsHistory[j].memory = metricsHistory[k].memory
            => /\ analysisResults[i].metrics.cpuDelta = 10 * Scale
               /\ analysisResults[i].impactScore < 0
               /\ kindOf(analysisResults[i].recommendation)
                    \in {"monitor", "revert"}

(* C36: after any sequence of recordConfigChange and analyzeMetrics calls  *)
(* the analysis list holds at most one ImpactAnalysis per change id.       *)
OneAnalysisPerChange ==
    \A i, j \in DOMAIN analysisResults :
        analysisResults[i].changeId = analysisResults[j].changeId => i = j

(* min(|before|, |after|) of the inputs an analysis was made from *)
samplesOf(i) ==
    Min(Cardinality(earlier(runs[i].change, runs[i].metricsHistory)),
        Cardinality(later(runs[i].change, runs[i].metricsHistory)))

(* The analyses on record with an impactScore below -0.3, in their order *)
poorOnRecord ==
    LET poor(i) == analysisResults[i].impactScore < -30
    IN  SelectSeq([i \in DOMAIN analysisResults |-> i], poor)

(* C37: a generateSuggestions call made with the analyses on record        *)
(* generates, for every analysis with impactScore < -0.3, a high-priority  *)
(* suggestion for its file whose confidence is the confidence of the       *)
(* analysis, (min(1, m/10) + 1)/2 with m = min(|before|, |after|); the     *)
(* suggestion meets the confidence condition of the eligibility filter     *)
(* iff m >= 4, and with m = 3 it is not eligible, so that no session is    *)
(* made for it.                                                            *)
PoorPerformerConfidence ==
    [][\A metricsHistory \in {getMetricsHistory} :
        generateSuggestions(getAnalysisResults, getBaselines, <<"app.json">>,
                            metricsHistory)
        => LET given == returned'.given
           IN  /\ Len(given) >= Len(poorOnRecord)
               /\ \A k \in DOMAIN given :
                    given[k].category = "performance" /\ given[k].priority = "high"
                        <=> k <= Len(poorOnRecord)
               /\ \A k \in DOMAIN poorOnRecord :
                    LET analysis == analysisResults[poorOnRecord[k]]
                        m == samplesOf(poorOnRecord[k])
                    IN  /\ given[k].priority = "high"
                        /\ given[k].configFile = analysis.configFile
                        /\ given[k].confidence = analysis.confidence
                        /\ 20 * given[k].confidence = Scale * (Min(10, m) + 10)
                        /\ ~(given[k].confidence < 70) <=> m >= 4
                        /\ m = 3 => /\ given[k].confidence = 65
                                    /\ ~isEligibleSuggestion(given[k])]_vars

(* A call generated suggestions from two poor analyses, one made from 3    *)
(* snapshots on its shorter side and one made from 4; the second is        *)
(* eligible                                                                *)
PoorWithThreeAndFour ==
    /\ Len(poorOnRecord) = 2
    /\ samplesOf(poorOnRecord[1]) = 3
    /\ samplesOf(poorOnRecord[2]) = 4
    /\ Len(returned.given) >= 2
    /\ returned.given[1].confidence = 65
    /\ returned.given[2].confidence = 70
    /\ isEligibleSuggestion(returned.given[2])

(* C38: with the suggestions reaching the engine through the auto-tuning   *)
(* tick, which drops those whose id has an active or completed session,    *)
(* at most one session exists per suggestion id.                           *)
OneSessionPerSuggestion ==
    \A one \in sessionsKept : \A other \in sessionsKept :
        one.suggestionId = other.suggestionId => one.id = other.id

(* C39: an engine whose config.enabled is false creates no backup and no   *)
(* session, schedules no validation and writes no file, whatever it is     *)
(* given to process: its sessions, its backup index, the backup directory  *)
(* and the files stay as they were at construction and no apply is under   *)
(* way.                                                                    *)
DisabledIsInert ==
    ~config.enabled
    => /\ activeSessions = <<>>
       /\ completedSessions = <<>>
       /\ backups = <<>>
       /\ backupDir = {}
       /\ timers = {}
       /\ validations = {}
       /\ files = FileSystem
       /\ \A c \in Calls : calls[c] = IdleCall
       /\ nextSessionId = 1
       /\ nextBackupId = 1

(* A disabled engine that is offered a batch with a suggestion an enabled  *)
(* one would apply: no approval asked, the suggestion eligible, a slot     *)
(* free                                                                    *)
DisabledAndOffered ==
    /\ ~config.enabled
    /\ ~config.approvalRequired
    /\ \E suggestions \in Batches :
            /\ filterEligibleSuggestions(suggestions) # <<>>
            /\ ENABLED processSuggestions(1, suggestions, Metrics(50, 50, 80))

====
